---- MODULE Spec2Model ----
(***************************************************************************)
(* A model of the Weston IVI controller plugin (saimizi/weston-ivi-        *)
(* controller): the per-client subscription manager and the notification   *)
(* delivery pump, the Unix socket transport's event loop, and the state    *)
(* mirror the RPC handlers keep of the compositor's ivi-layout scene.      *)
(***************************************************************************)
EXTENDS Integers, Sequences, FiniteSets, TLC

\* ------------------------------------------------------------------ bounds
\* Largest buffer size a SubscriptionManager is constructed with.
MaxCap == 2
\* Number of notifications the controller emits in a run.
MaxNotifs == 3
\* Number of messages the clients write to their sockets in a run.
MaxRequests == 2
\* Number of uncommitted mutator calls the clients leave pending at a time.
MaxBatch == 2

\* ------------------------------------------------------------- vocabulary
EventTypes == {"SurfaceCreated", "FocusChanged"}
\* The ids the transport gives the connections it accepts, in this order.
ClientIds == {1, 2}
\* The ivi surface and layer ids the compositor uses.
SurfaceIds == {1000, 1001}
LayerIds == {2000}
\* Option<u32>: None, and Some(x).
None == <<>>
Some(x) == <<x>>

VARIABLES
    buffer_size,      \* SubscriptionManager.buffer_size
    subscriptions,    \* SubscriptionManager.subscriptions: client -> ClientSubscription
    clients,          \* the transport's connected clients
    next_client_id,   \* the transport's next client id
    seq,              \* number of notifications queued so far
    pump_pc,          \* the delivery thread's position
    pump_clients,     \* the delivery thread's snapshot of clients still to visit
    pump_cur,         \* the client whose drained batch is being sent
    pump_batch,       \* drained notifications not yet sent
    sent,             \* history: per client, what Transport::send delivered
    since,            \* history: per client, what was queued since its last drain
    last,             \* history: the last operation on the subscription manager
    running,          \* TransportState.running
    state_lock,       \* the thread holding the TransportState mutex, or "free"
    poisoned,         \* whether a thread panicked while holding that mutex
    ev_pc,            \* the event loop thread's position
    ev_messages,      \* event loop: client_messages still to handle
    ev_disconnected,  \* event loop: disconnected_clients of this iteration
    inbox,            \* per client, the lines written to its socket and not yet read
    closed,           \* clients that have closed their end of the socket
    req_count,        \* number of messages the clients have written
    parsed,           \* history: <<client, id>> of requests RpcRequest::from_json accepted
    responses,        \* per client, the ids of the responses written to its socket
    slot_lock,        \* the holder of the RpcHandler.transport mutex, "free" or "poisoned"
    stop_pc,          \* the position of the thread that runs stop_transport
    socket_file,      \* whether the socket path exists
    phase,            \* "loading" until plugin_init_impl has run, then "running"
    h_surfaces,       \* compositor: surface id -> committed and pending properties
    h_layers,         \* compositor: the layer ids that exist
    h_layer_props,    \* compositor: layer id -> committed and pending properties
    surfaces,         \* StateManager.surfaces: id -> SurfaceState
    layers,           \* StateManager.layers: id -> LayerState
    focused_surface,  \* StateManager.focused_surface
    surface_prop_listeners, \* EventContext: surfaces with a property listener
    layer_prop_listeners,   \* EventContext: layers with a property listener
    listener_contexts,      \* LISTENER_CONTEXTS: per listener key, the number of entries
    host_pc,                \* the callback the compositor's thread is inside, or <<>>
    emitted,          \* the notifications the last step handed to the bridge
    rpc,              \* history: the last RPC call and its response
    uncommitted,      \* history: mutator calls since the last commit_changes
    fr_state,         \* FrameReader.state
    fr_buffer,        \* FrameReader.buffer: bytes read and not yet processed
    wire,             \* the bytes written to the stream and not yet read
    wrote,            \* history: what was written to the stream, call by call
    fr_results,       \* history: the calls on the FrameReader and their results
    callbacks,        \* NotificationManager.callbacks: type -> the callbacks registered
    registry_lock,    \* the holder of the mutex around callbacks, "free" or "poisoned"
    emit_pc,          \* the position of the thread that calls emit
    delivered         \* history: the callbacks that returned during this emit

subVars == <<buffer_size, subscriptions, clients, next_client_id, seq>>
pumpVars == <<pump_pc, pump_clients, pump_cur, pump_batch, sent>>
histVars == <<since, last>>
stopVars == <<slot_lock, stop_pc, socket_file>>
transVars == <<running, state_lock, poisoned, ev_pc, ev_messages, ev_disconnected,
               inbox, closed, req_count, parsed, responses, stopVars>>
hostVars == <<h_surfaces, h_layers, h_layer_props>>
coreVars == <<phase, surfaces, layers, focused_surface, surface_prop_listeners,
              layer_prop_listeners, listener_contexts, host_pc, emitted, rpc, uncommitted>>
wireVars == <<fr_state, fr_buffer, wire, wrote, fr_results>>
emitVars == <<callbacks, registry_lock, emit_pc, delivered>>
vars == <<subVars, pumpVars, histVars, transVars, hostVars, coreVars, wireVars, emitVars>>

\* ----------------------------------------------------- ClientSubscription
ClientSubscriptionNew == [event_types |-> {}, event_buffer |-> <<>>]

ClientSubscribe(sub, ets) == [sub EXCEPT !.event_types = @ \cup ets]

ClientUnsubscribe(sub, ets) == [sub EXCEPT !.event_types = @ \ ets]

IsSubscribedAny(sub, t) == TRUE

IsSubscribed(sub, t) == t \in sub.event_types

\* VecDeque::pop_front: nothing to remove from an empty queue.
PopFront(q) == IF q = <<>> THEN q ELSE Tail(q)

ClientQueueNotification(sub, n) ==
    LET buf == IF Len(sub.event_buffer) >= buffer_size
               THEN PopFront(sub.event_buffer)
               ELSE sub.event_buffer
    IN  [sub EXCEPT !.event_buffer = Append(buf, n)]

Reverse(q) == [i \in 1..Len(q) |-> q[Len(q) + 1 - i]]

ClientDrainReversed(sub) == Reverse(sub.event_buffer)

\* The notifications drain(..) hands out, oldest first.
ClientDrainNotifications(sub) == sub.event_buffer

\* ---------------------------------------------------- SubscriptionManager
Subscribe(subs, c, ets) ==
    LET entry == IF c \in DOMAIN subs THEN subs[c] ELSE ClientSubscriptionNew
    IN  [d \in DOMAIN subs \cup {c} |->
            IF d = c THEN ClientSubscribe(entry, ets) ELSE subs[d]]

\* Err("Client has no subscriptions") leaves the map as it is.
Unsubscribe(subs, c, ets) ==
    IF c \in DOMAIN subs
    THEN [subs EXCEPT ![c] = ClientUnsubscribe(@, ets)]
    ELSE subs

GetSubscriptions(subs, c) ==
    IF c \in DOMAIN subs THEN subs[c].event_types ELSE {}

QueueNotification(subs, t, n) ==
    [c \in DOMAIN subs |->
        IF IsSubscribed(subs[c], t)
        THEN ClientQueueNotification(subs[c], n)
        ELSE subs[c]]

\* The value drain_notifications returns.
DrainResult(subs, c) ==
    IF c \in DOMAIN subs THEN ClientDrainNotifications(subs[c]) ELSE <<>>

\* The map drain_notifications leaves behind.
DrainNotifications(subs, c) ==
    IF c \in DOMAIN subs THEN [subs EXCEPT ![c].event_buffer = <<>>] ELSE subs

RemoveClientKeep(subs, c) == subs

RemoveClient(subs, c) == [d \in DOMAIN subs \ {c} |-> subs[d]]

\* ----------------------------------------------------------------- history
NoOp == [op |-> "none", client |-> 0, topic |-> "", result |-> <<>>, queued |-> <<>>]

\* Clients whose connection was accepted and has since been closed.
Disconnected == (1..(next_client_id - 1)) \ clients

\* All orders in which a HashMap can enumerate the keys in S.
Orders(S) ==
    {s \in [1..Cardinality(S) -> S] : \A i, j \in 1..Cardinality(S) : s[i] = s[j] => i = j}

\* The last k elements of q (all of q when it is shorter).
Suffix(q, k) ==
    IF Len(q) <= k THEN q ELSE SubSeq(q, Len(q) - k + 1, Len(q))

SubInit ==
    /\ buffer_size \in 0..MaxCap
    /\ subscriptions = <<>>
    /\ clients = {}
    /\ next_client_id = 1
    /\ seq = 0

PumpInit ==
    /\ pump_pc = "sleep"
    /\ pump_clients = <<>>
    /\ pump_cur = 0
    /\ pump_batch = <<>>
    /\ sent = [c \in ClientIds |-> <<>>]

HistInit ==
    /\ since = [c \in ClientIds |-> <<>>]
    /\ last = NoOp

\* The transport after start(): the event loop is about to run.
TransInit ==
    /\ running = TRUE
    /\ state_lock = "free"
    /\ poisoned = FALSE
    /\ ev_pc = "check"
    /\ ev_messages = <<>>
    /\ ev_disconnected = {}
    /\ inbox = [c \in ClientIds |-> <<>>]
    /\ closed = {}
    /\ req_count = 0
    /\ parsed = {}
    /\ responses = [c \in ClientIds |-> <<>>]
    /\ slot_lock = "free"
    /\ stop_pc = "idle"
    /\ socket_file = TRUE

\* ------------------------------------------------------ message framing
\* MAX_MESSAGE_SIZE, 64 * 1024 * 1024.
MAX_MESSAGE_SIZE == 67108864

\* The size of the buffer read_frame hands to one read().
ReadBufferSize == 4096

\* The delimiter UnixSocketTransport::send writes after the data.
Newline == 10

\* The byte values of the payloads that are written.
Bytes == {0, 1}

MaxPayload == 2
MaxWrites == 2
MaxReaderCalls == 3

Payloads == UNION {[1..n -> Bytes] : n \in 0..MaxPayload}

\* The lengths of the headers a peer writes without write_frame.
RawLengths == {0, MAX_MESSAGE_SIZE, MAX_MESSAGE_SIZE + 1}

Min(a, b) == IF a < b THEN a ELSE b

\* u32::to_le_bytes, the least significant byte first.
ToLeBytes(n) ==
    <<n % 256, (n \div 256) % 256, (n \div 65536) % 256, (n \div 16777216) % 256>>

\* u32::to_be_bytes.
ToBeBytes(n) ==
    <<(n \div 16777216) % 256, (n \div 65536) % 256, (n \div 256) % 256, n % 256>>

\* u32::from_be_bytes.
FromBeBytes(b) == b[1] * 16777216 + b[2] * 65536 + b[3] * 256 + b[4]

\* write_frame(writer, data): the bytes it writes when it accepts data.
WriteFrame(data) == ToBeBytes(Len(data)) \o data

\* UnixSocketTransport::send: the bytes it writes to the client's stream.
SendBytes(data) == data \o <<Newline>>

WaitingForHeader(header_buf, bytes_read) ==
    [kind |-> "WaitingForHeader", header_buf |-> header_buf, bytes_read |-> bytes_read,
     expected_len |-> 0, buffer |-> <<>>]

WaitingForPayload(expected_len, bytes_read, buffer) ==
    [kind |-> "WaitingForPayload", header_buf |-> <<0, 0, 0, 0>>, bytes_read |-> bytes_read,
     expected_len |-> expected_len, buffer |-> buffer]

\* ReadState::default().
DefaultReadState == WaitingForHeader(<<0, 0, 0, 0>>, 0)

Extracted(st, buf, out) == [state |-> st, buffer |-> buf, out |-> out]

\* A reader that starts over after a header it refuses.
RECURSIVE TryExtractMessageForgiving(_, _)
TryExtractMessageForgiving(st, buf) ==
    IF Len(buf) = 0 THEN Extracted(st, buf, <<"None">>)
    ELSE LET to_copy == Min((IF st.kind = "WaitingForHeader" THEN 4 ELSE st.expected_len)
                                - st.bytes_read, Len(buf))
             rest == SubSeq(buf, to_copy + 1, Len(buf))
             bytes_read == st.bytes_read + to_copy
         IN  IF st.kind = "WaitingForHeader"
             THEN LET header_buf == [i \in 1..4 |->
                                        IF i > st.bytes_read /\ i <= bytes_read
                                        THEN buf[i - st.bytes_read] ELSE st.header_buf[i]]
                      msg_len == FromBeBytes(header_buf)
                  IN  IF bytes_read # 4
                      THEN TryExtractMessageForgiving(WaitingForHeader(header_buf, bytes_read), rest)
                      ELSE IF msg_len = 0 \/ msg_len > MAX_MESSAGE_SIZE
                      THEN Extracted(DefaultReadState, rest, <<"Err">>)
                      ELSE TryExtractMessageForgiving(WaitingForPayload(msg_len, 0, <<>>), rest)
             ELSE LET buffer == st.buffer \o SubSeq(buf, 1, to_copy)
                  IN  IF bytes_read = st.expected_len
                      THEN Extracted(DefaultReadState, rest, <<"Some", buffer>>)
                      ELSE TryExtractMessageForgiving(
                               WaitingForPayload(st.expected_len, bytes_read, buffer), rest)

\* A reader that forgets what it has buffered behind a message.
RECURSIVE TryExtractMessageOnePerRead(_, _)
TryExtractMessageOnePerRead(st, buf) ==
    IF Len(buf) = 0 THEN Extracted(st, buf, <<"None">>)
    ELSE LET to_copy == Min((IF st.kind = "WaitingForHeader" THEN 4 ELSE st.expected_len)
                                - st.bytes_read, Len(buf))
             rest == SubSeq(buf, to_copy + 1, Len(buf))
             bytes_read == st.bytes_read + to_copy
         IN  IF st.kind = "WaitingForHeader"
             THEN LET header_buf == [i \in 1..4 |->
                                        IF i > st.bytes_read /\ i <= bytes_read
                                        THEN buf[i - st.bytes_read] ELSE st.header_buf[i]]
                      msg_len == FromBeBytes(header_buf)
                  IN  IF bytes_read # 4
                      THEN TryExtractMessageOnePerRead(WaitingForHeader(header_buf, bytes_read), rest)
                      ELSE IF msg_len = 0 \/ msg_len > MAX_MESSAGE_SIZE
                      THEN Extracted(WaitingForHeader(header_buf, bytes_read), rest, <<"Err">>)
                      ELSE TryExtractMessageOnePerRead(WaitingForPayload(msg_len, 0, <<>>), rest)
             ELSE LET buffer == st.buffer \o SubSeq(buf, 1, to_copy)
                  IN  IF bytes_read = st.expected_len
                      THEN Extracted(DefaultReadState, <<>>, <<"Some", buffer>>)
                      ELSE TryExtractMessageOnePerRead(
                               WaitingForPayload(st.expected_len, bytes_read, buffer), rest)

\* FrameReader::try_extract_message on state st and unprocessed bytes buf:
\* the state and the bytes it leaves, and Some(message), None or Err.
RECURSIVE TryExtractMessage(_, _)
TryExtractMessage(st, buf) ==
    IF Len(buf) = 0 THEN Extracted(st, buf, <<"None">>)
    ELSE LET to_copy == Min((IF st.kind = "WaitingForHeader" THEN 4 ELSE st.expected_len)
                                - st.bytes_read, Len(buf))
             rest == SubSeq(buf, to_copy + 1, Len(buf))
             bytes_read == st.bytes_read + to_copy
         IN  IF st.kind = "WaitingForHeader"
             THEN LET header_buf == [i \in 1..4 |->
                                        IF i > st.bytes_read /\ i <= bytes_read
                                        THEN buf[i - st.bytes_read] ELSE st.header_buf[i]]
                      msg_len == FromBeBytes(header_buf)
                  IN  IF bytes_read # 4
                      THEN TryExtractMessage(WaitingForHeader(header_buf, bytes_read), rest)
                      ELSE IF msg_len = 0 \/ msg_len > MAX_MESSAGE_SIZE
                      THEN Extracted(WaitingForHeader(header_buf, bytes_read), rest, <<"Err">>)
                      ELSE TryExtractMessage(WaitingForPayload(msg_len, 0, <<>>), rest)
             ELSE LET buffer == st.buffer \o SubSeq(buf, 1, to_copy)
                  IN  IF bytes_read = st.expected_len
                      THEN Extracted(DefaultReadState, rest, <<"Some", buffer>>)
                      ELSE TryExtractMessage(
                               WaitingForPayload(st.expected_len, bytes_read, buffer), rest)

\* What read_frame returns for an outcome of try_extract_message.
FrameReadResult(out) == IF out[1] = "Some" THEN <<"Complete", out[2]>> ELSE out

Returned(st, buf, result, consumed) ==
    [state |-> st, buffer |-> buf, result |-> result, consumed |-> consumed]

\* FrameReader::read_frame on a reader that yields the bytes avail and then
\* ends with end, Eof or NeedMore (WouldBlock): the state and the buffer it
\* leaves, its result, and how many bytes of avail it has read.
RECURSIVE ReadFrame(_, _, _, _)
ReadFrame(st, buf, avail, end) ==
    LET buffered == TryExtractMessage(st, buf)
    IN  IF buf # <<>> /\ buffered.out # <<"None">>
        THEN Returned(buffered.state, buffered.buffer, FrameReadResult(buffered.out), 0)
        ELSE IF avail = <<>>
        THEN Returned(buffered.state, buffered.buffer, <<end>>, 0)
        ELSE LET n == Min(Len(avail), ReadBufferSize)
                 read == TryExtractMessage(buffered.state,
                                           buffered.buffer \o SubSeq(avail, 1, n))
                 again == ReadFrame(read.state, read.buffer,
                                    SubSeq(avail, n + 1, Len(avail)), end)
             IN  IF read.out # <<"None">>
                 THEN Returned(read.state, read.buffer, FrameReadResult(read.out), n)
                 ELSE [again EXCEPT !.consumed = @ + n]

\* FrameReader::new() on a stream nobody has written to.
WireInit ==
    /\ fr_state = DefaultReadState
    /\ fr_buffer = <<>>
    /\ wire = <<>>
    /\ wrote = <<>>
    /\ fr_results = <<>>

\* ----------------------------------------------- the callback registry
\* The notification types callbacks are registered for.
CallbackTypes == {"GeometryChanged", "VisibilityChanged"}

\* What a callback does when it is invoked: it forwards the notification,
\* it registers another callback with the manager it was called by, or it
\* panics.
CallbackKinds == {"forward", "register", "panic"}

MaxCallbacks == 2

\* Where the emitting thread is: outside emit ("idle"), at the index-th
\* callback of the list of type ("iterating"), inside it ("in_callback"),
\* or stopped.
EmitAt(at, type, index) == [at |-> at, type |-> type, index |-> index]
EmitIdle == EmitAt("idle", "", 0)

\* NotificationManager::new().
EmitInit ==
    /\ callbacks = [t \in CallbackTypes |-> <<>>]
    /\ registry_lock = "free"
    /\ emit_pc = EmitIdle
    /\ delivered = <<>>

\* What self.callbacks.lock().unwrap() can do on thread: a thread that
\* holds the mutex deadlocks or panics, a poisoned mutex makes it panic.
LockOutcomes(lock, thread) ==
    IF lock = thread THEN {"deadlock", "panic"}
    ELSE IF lock = "poisoned" THEN {"panic"}
    ELSE {"ok"}

\* ------------------------------------------------ the layout capability
\* The attribute categories of the event mask (NotificationMask bits).
Categories ==
    {"Opacity", "SourceRect", "DestRect", "Dimension", "Position", "Orientation", "Visibility"}

\* The bits that make the filtered diff look at the two rectangles.
GeometryBits == {"Position", "SourceRect", "DestRect", "Dimension"}

\* A conversion that rounds to the nearest 256th.
F32ToFixedNearest(k) == (k * 256 + 500) \div 1000

\* f32_to_wl_fixed_t for an opacity of k/1000: (value * 256.0) as i32.
F32ToFixed(k) == (k * 256) \div 1000

\* wl_fixed_t_to_f32: fixed / 256.0. An f32 opacity v is held as 256 * v.
FixedToF32(fixed) == fixed

\* Whether the f32 held as m (in 256ths) is the opacity k/1000.
SameOpacity(m, k) == m * 1000 = k * 256

SeedProps ==
    [src |-> <<0, 0, 100, 100>>, dest |-> <<0, 0, 100, 100>>, opacity |-> F32ToFixed(1000),
     visibility |-> TRUE, orientation |-> "Normal", mask |-> {}]

\* A surface as the compositor creates it: nothing pending.
SeedSurface == [prop |-> SeedProps, pending |-> SeedProps]

\* A setter writes the pending properties, and marks the category in the
\* pending event mask when the value differs from the committed one.
HostWrite(hs, s, field, cat, value) ==
    [hs EXCEPT ![s].pending =
        [@ EXCEPT ![field] = value,
                  !.mask = IF hs[s].prop[field] # value THEN @ \cup {cat} ELSE @ \ {cat}]]

\* IviSurface::get_size_full: the committed destination rectangle.
GetSizeFull(hs, s) == hs[s].prop.dest

\* IviSurface::set_position: the new origin with the committed size.
SetPosition(hs, s, x, y) ==
    LET d == GetSizeFull(hs, s)
    IN  HostWrite(hs, s, "dest", "DestRect", <<x, y, d[3], d[4]>>)

\* IviSurface::set_size: the committed origin with the new size.
SetSize(hs, s, w, h) ==
    LET d == GetSizeFull(hs, s)
    IN  HostWrite(hs, s, "dest", "DestRect", <<d[1], d[2], w, h>>)

SetOpacity(hs, s, k) == HostWrite(hs, s, "opacity", "Opacity", F32ToFixed(k))

SetVisibility(hs, s, v) == HostWrite(hs, s, "visibility", "Visibility", v)

\* commit_changes: pending becomes committed, the pending mask starts anew.
HostCommit(hs) ==
    [s \in DOMAIN hs |->
        [prop |-> hs[s].pending, pending |-> [hs[s].pending EXCEPT !.mask = {}]]]

\* A layer as the compositor creates it: no surface on it, nothing pending.
SeedLayerProps ==
    [visibility |-> TRUE, opacity |-> F32ToFixed(1000), order |-> <<>>, mask |-> {}]

SeedLayer == [prop |-> SeedLayerProps, pending |-> SeedLayerProps]

\* A layer setter writes the pending properties and marks the category.
LayerWrite(hl, l, field, cat, value) ==
    [hl EXCEPT ![l].pending =
        [@ EXCEPT ![field] = value,
                  !.mask = IF hl[l].prop[field] # value THEN @ \cup {cat} ELSE @ \ {cat}]]

SetLayerVisibility(hl, l, v) == LayerWrite(hl, l, "visibility", "Visibility", v)

SetLayerOpacity(hl, l, k) == LayerWrite(hl, l, "opacity", "Opacity", F32ToFixed(k))

\* commit_changes for the layers: properties and render order.
LayerHostCommit(hl) ==
    [l \in DOMAIN hl |->
        [prop |-> hl[l].pending, pending |-> [hl[l].pending EXCEPT !.mask = {}]]]

\* The sequence q without the id s.
Without(q, s) == SelectSeq(q, LAMBDA t : t # s)

\* The sequence q with s put in at index i, counted from 0.
InsertAt(q, i, s) == SubSeq(q, 1, i) \o <<s>> \o SubSeq(q, i + 1, Len(q))

\* The ids of the sequence q.
Range(q) == {q[i] : i \in 1..Len(q)}

\* get_layers_under_surface: the layers whose render order holds s.
GetLayersUnderSurface(hl, s) == {l \in DOMAIN hl : s \in Range(hl[l].prop.order)}

\* The layer's surfaces sorted by id, s taken out and put back at
\* min(z_order, len).
Reordered(order, s, z) ==
    LET others == Without(order, s)
        least(S) == CHOOSE x \in S : \A y \in S : x <= y
        sorted[S \in SUBSET Range(others)] ==
            IF S = {} THEN <<>> ELSE <<least(S)>> \o sorted[S \ {least(S)}]
        by_id == sorted[Range(others)]
    IN  InsertAt(by_id, IF z < Len(by_id) THEN z ELSE Len(by_id), s)

\* IviSurface::set_z_order: a new pending render order for every layer
\* under the surface.
SetZOrder(hl, s, z) ==
    [l \in DOMAIN hl |->
        IF l \in GetLayersUnderSurface(hl, s)
        THEN [hl[l] EXCEPT !.pending.order = Reordered(hl[l].prop.order, s, z)]
        ELSE hl[l]]

\* The compositor takes a destroyed surface off every layer.
WithoutSurface(hl, s) ==
    [l \in DOMAIN hl |->
        [prop |-> [hl[l].prop EXCEPT !.order = Without(@, s)],
         pending |-> [hl[l].pending EXCEPT !.order = Without(@, s)]]]

\* ------------------------------------------------------------ StateManager
\* The SurfaceState built from the capability's committed properties.
ReadSurface(hs, s, z) ==
    [src |-> hs[s].prop.src,
     dest |-> hs[s].prop.dest,
     opacity |-> FixedToF32(hs[s].prop.opacity),
     visibility |-> hs[s].prop.visibility,
     orientation |-> hs[s].prop.orientation,
     z_order |-> z]

\* The LayerState built from the capability's committed properties.
ReadLayer(hl, l) ==
    [visibility |-> hl[l].prop.visibility, opacity |-> FixedToF32(hl[l].prop.opacity)]

Notification(type, id, old, new) == [type |-> type, id |-> id, old |-> old, new |-> new]

\* emit_surface_property_changes and its filtered form: a mask of 0 diffs
\* every attribute, any other mask only the categories whose bit is set.
PropertyChanges(s, old, new, mask) ==
    LET has(cat) == mask = {} \/ cat \in mask
        geometry == mask = {} \/ mask \cap GeometryBits # {}
    IN  (IF geometry /\ old.src # new.src
         THEN <<Notification("SourceGeometryChanged", s, old.src, new.src)>>
         ELSE <<>>)
        \o
        (IF geometry /\ old.dest # new.dest
         THEN <<Notification("DestinationGeometryChanged", s, old.dest, new.dest)>>
         ELSE <<>>)
        \o
        (IF has("Visibility") /\ old.visibility # new.visibility
         THEN <<Notification("VisibilityChanged", s, old.visibility, new.visibility)>>
         ELSE <<>>)
        \o
        (IF has("Opacity") /\ old.opacity # new.opacity
         THEN <<Notification("OpacityChanged", s, old.opacity, new.opacity)>>
         ELSE <<>>)
        \o
        (IF has("Orientation") /\ old.orientation # new.orientation
         THEN <<Notification("OrientationChanged", s, old.orientation, new.orientation)>>
         ELSE <<>>)

\* What handle_surface_configured(s) emits.
ConfiguredNotifications(mir, hs, s) ==
    IF s \in DOMAIN hs /\ s \in DOMAIN mir
    THEN PropertyChanges(s, mir[s], ReadSurface(hs, s, mir[s].z_order), hs[s].prop.mask)
    ELSE <<>>

\* handle_surface_configured leaving the mirror as it was.
HandleSurfaceConfiguredStale(mir, hs, s) == mir

\* The mirror handle_surface_configured(s) leaves.
HandleSurfaceConfigured(mir, hs, s) ==
    IF s \in DOMAIN hs
    THEN [t \in DOMAIN mir \cup {s} |->
            IF t = s
            THEN ReadSurface(hs, s, IF s \in DOMAIN mir THEN mir[s].z_order ELSE 0)
            ELSE mir[t]]
    ELSE mir

\* What handle_layer_configured(l) emits: only the categories whose bit is
\* set in the event mask are compared.
LayerConfiguredNotifications(lmir, hl, l) ==
    IF l \in DOMAIN hl /\ l \in DOMAIN lmir
    THEN LET old == lmir[l]
             new == ReadLayer(hl, l)
             mask == hl[l].prop.mask
         IN  (IF "Visibility" \in mask /\ old.visibility # new.visibility
              THEN <<Notification("LayerVisibilityChanged", l, old.visibility, new.visibility)>>
              ELSE <<>>)
             \o
             (IF "Opacity" \in mask /\ old.opacity # new.opacity
              THEN <<Notification("LayerOpacityChanged", l, old.opacity, new.opacity)>>
              ELSE <<>>)
    ELSE <<>>

\* The layer mirror handle_layer_configured(l) leaves.
HandleLayerConfigured(lmir, hl, l) ==
    IF l \in DOMAIN hl
    THEN [m \in DOMAIN lmir \cup {l} |-> IF m = l THEN ReadLayer(hl, l) ELSE lmir[m]]
    ELSE lmir

\* sync_with_ivi: the surface map is cleared and rebuilt from get_surfaces().
SyncWithIvi(hs) == [s \in DOMAIN hs |-> ReadSurface(hs, s, 0)]

\* What set_focused_surface(new) emits.
FocusNotifications(old, new) ==
    IF old # new THEN <<Notification("FocusChanged", 0, old, new)>> ELSE <<>>

FocusAfterDestroyKept(focus, s) == focus

\* handle_surface_destroyed: a destroyed surface that had the focus loses it.
FocusAfterDestroy(focus, s) == IF focus = Some(s) THEN None ELSE focus

\* -------------------------------------------- plugin and compositor events
\* The ids in S in ascending order.
RECURSIVE Ascending(_)
Ascending(S) ==
    IF S = {}
    THEN <<>>
    ELSE LET least == CHOOSE x \in S : \A y \in S : x <= y
         IN  <<least>> \o Ascending(S \ {least})

\* The property listeners commit_changes calls: those of the surfaces whose
\* committed event mask is not empty.
Notified(hs, listeners) == {s \in listeners \cap DOMAIN hs : hs[s].prop.mask # {}}

\* surface_property_changed_callback for each surface in order: the mirror
\* and the notifications the calls of handle_surface_configured leave.
RECURSIVE ConfigureAll(_, _, _)
ConfigureAll(mir, hs, order) ==
    IF order = <<>>
    THEN [mir |-> mir, out |-> <<>>]
    ELSE LET s == Head(order)
             rest == ConfigureAll(HandleSurfaceConfigured(mir, hs, s), hs, Tail(order))
         IN  [mir |-> rest.mir, out |-> ConfiguredNotifications(mir, hs, s) \o rest.out]

\* ivi_api.commit_changes(), the listeners the compositor calls included.
CommitChanges(mir, hs) ==
    ConfigureAll(mir, HostCommit(hs), Ascending(Notified(HostCommit(hs), surface_prop_listeners)))

\* layer_property_changed_callback for each layer in order.
RECURSIVE ConfigureAllLayers(_, _, _)
ConfigureAllLayers(lmir, hl, order) ==
    IF order = <<>>
    THEN [mir |-> lmir, out |-> <<>>]
    ELSE LET l == Head(order)
             rest == ConfigureAllLayers(HandleLayerConfigured(lmir, hl, l), hl, Tail(order))
         IN  [mir |-> rest.mir, out |-> LayerConfiguredNotifications(lmir, hl, l) \o rest.out]

\* The layer side of commit_changes(): the layer listeners come first.
CommitLayerChanges(lmir, hl) ==
    ConfigureAllLayers(lmir, LayerHostCommit(hl),
                       Ascending(Notified(LayerHostCommit(hl), layer_prop_listeners)))

NoRpc == [method |-> "none", id |-> 0, arg |-> <<>>, auto_commit |-> FALSE,
          response |-> "none", calls |-> <<>>]

\* ------------------------------------------------- the listener registry
\* The listeners register_listeners gives the compositor.
GlobalListeners ==
    {"create_surface", "remove_surface", "configure_surface", "create_layer", "remove_layer"}

SurfaceKey(s) == <<"surface", s>>
LayerKey(l) == <<"layer", l>>
GlobalKey(g) == <<"global", g>>

\* What a wl_listener the plugin allocates can be the listener of.
ListenerKeys ==
    {SurfaceKey(s) : s \in SurfaceIds} \cup {LayerKey(l) : l \in LayerIds}
        \cup {GlobalKey(g) : g \in GlobalListeners}

\* LISTENER_CONTEXTS before any listener is allocated.
NoListeners == [k \in ListenerKeys |-> 0]

\* One new wl_listener is allocated and inserted for each of the keys.
Registered(ctx, keys) == [k \in ListenerKeys |-> IF k \in keys THEN ctx[k] + 1 ELSE ctx[k]]

\* One entry of each of the keys is removed.
Released(ctx, keys) == [k \in ListenerKeys |-> IF k \in keys THEN ctx[k] - 1 ELSE ctx[k]]

\* register_surface_property_listener_by_id: nothing for a surface the
\* compositor does not know; else a new listener in the registry and in the map.
RegisterSurfacePropertyListener(map, ctx, hs, s) ==
    IF s \notin DOMAIN hs
    THEN [map |-> map, ctx |-> ctx]
    ELSE [map |-> map \cup {s}, ctx |-> Registered(ctx, {SurfaceKey(s)})]

\* A removal that forgets the listener's entry of the registry.
RemoveSurfacePropertyListenerLeak(map, ctx, s) == [map |-> map \ {s}, ctx |-> ctx]

\* remove_surface_property_listener: the map's listener of s, if there is
\* one, leaves the map and the registry.
RemoveSurfacePropertyListener(map, ctx, s) ==
    [map |-> map \ {s},
     ctx |-> IF s \in map THEN Released(ctx, {SurfaceKey(s)}) ELSE ctx]

\* register_layer_property_listener_by_id.
RegisterLayerPropertyListener(map, ctx, hl, l) ==
    IF l \notin hl
    THEN [map |-> map, ctx |-> ctx]
    ELSE [map |-> map \cup {l}, ctx |-> Registered(ctx, {LayerKey(l)})]

\* remove_layer_property_listener.
RemoveLayerPropertyListener(map, ctx, l) ==
    [map |-> map \ {l},
     ctx |-> IF l \in map THEN Released(ctx, {LayerKey(l)}) ELSE ctx]

\* The registry once plugin_init_impl has registered the global listeners
\* and one listener for each of the surfaces and layers.
InitialListeners(ss, ls) ==
    Registered(NoListeners, {GlobalKey(g) : g \in GlobalListeners}
                              \cup {SurfaceKey(s) : s \in ss} \cup {LayerKey(l) : l \in ls})

CoreInit ==
    /\ phase = "loading"
    /\ listener_contexts = NoListeners
    /\ host_pc = <<>>
    /\ surfaces = <<>>
    /\ layers = <<>>
    /\ focused_surface = None
    /\ surface_prop_listeners = {}
    /\ layer_prop_listeners = {}
    /\ emitted = <<>>
    /\ rpc = NoRpc
    /\ uncommitted = <<>>

\* plugin_init_impl: sync_with_ivi, then a property listener for every
\* mirrored surface and for every layer get_layers() returns.
PluginInit ==
    /\ phase = "loading"
    /\ phase' = "running"
    /\ surfaces' = SyncWithIvi(h_surfaces)
    /\ surface_prop_listeners' = DOMAIN SyncWithIvi(h_surfaces)
    /\ layer_prop_listeners' = h_layers
    /\ listener_contexts' = InitialListeners(DOMAIN SyncWithIvi(h_surfaces), h_layers)
    /\ emitted' = <<>>
    /\ rpc' = NoRpc
    /\ UNCHANGED <<hostVars, layers, focused_surface, uncommitted, host_pc>>

\* The compositor creates surface s: surface_created_callback.
SurfaceCreated(s) ==
    /\ phase = "running"
    /\ s \notin DOMAIN h_surfaces
    /\ h_surfaces' = [t \in DOMAIN h_surfaces \cup {s} |->
                         IF t = s THEN SeedSurface ELSE h_surfaces[t]]
    /\ surfaces' = [t \in DOMAIN surfaces \cup {s} |->
                       IF t = s THEN ReadSurface(h_surfaces', s, 0) ELSE surfaces[t]]
    /\ emitted' = <<Notification("SurfaceCreated", s, None, None)>>
    /\ surface_prop_listeners' =
          RegisterSurfacePropertyListener(surface_prop_listeners, listener_contexts, h_surfaces', s).map
    /\ listener_contexts' =
          RegisterSurfacePropertyListener(surface_prop_listeners, listener_contexts, h_surfaces', s).ctx
    /\ rpc' = NoRpc
    /\ UNCHANGED <<h_layers, h_layer_props, phase, layers, focused_surface, layer_prop_listeners,
                   uncommitted, host_pc>>

\* A removal that clears the focus before it reports the destruction.
SurfaceRemovedFocusFirst(s) ==
    /\ phase = "running"
    /\ s \in DOMAIN h_surfaces
    /\ h_surfaces' = [t \in DOMAIN h_surfaces \ {s} |-> h_surfaces[t]]
    /\ surfaces' = [t \in DOMAIN surfaces \ {s} |-> surfaces[t]]
    /\ focused_surface' = FocusAfterDestroy(focused_surface, s)
    /\ emitted' = FocusNotifications(focused_surface, focused_surface')
                    \o <<Notification("SurfaceDestroyed", s, None, None)>>
    /\ surface_prop_listeners' =
          RemoveSurfacePropertyListener(surface_prop_listeners, listener_contexts, s).map
    /\ listener_contexts' =
          RemoveSurfacePropertyListener(surface_prop_listeners, listener_contexts, s).ctx
    /\ rpc' = NoRpc
    /\ h_layer_props' = WithoutSurface(h_layer_props, s)
    /\ UNCHANGED <<h_layers, phase, layers, layer_prop_listeners, uncommitted, host_pc>>

\* The compositor removes surface s: surface_removed_callback.
SurfaceRemoved(s) ==
    /\ phase = "running"
    /\ s \in DOMAIN h_surfaces
    /\ h_surfaces' = [t \in DOMAIN h_surfaces \ {s} |-> h_surfaces[t]]
    /\ surfaces' = [t \in DOMAIN surfaces \ {s} |-> surfaces[t]]
    /\ focused_surface' = FocusAfterDestroy(focused_surface, s)
    /\ emitted' = <<Notification("SurfaceDestroyed", s, None, None)>>
                    \o FocusNotifications(focused_surface, focused_surface')
    /\ surface_prop_listeners' =
          RemoveSurfacePropertyListener(surface_prop_listeners, listener_contexts, s).map
    /\ listener_contexts' =
          RemoveSurfacePropertyListener(surface_prop_listeners, listener_contexts, s).ctx
    /\ rpc' = NoRpc
    /\ h_layer_props' = WithoutSurface(h_layer_props, s)
    /\ UNCHANGED <<h_layers, phase, layers, layer_prop_listeners, uncommitted, host_pc>>

\* The compositor reports surface s configured: surface_configured_callback.
SurfaceConfigured(s) ==
    /\ phase = "running"
    /\ s \in DOMAIN h_surfaces
    /\ surfaces' = HandleSurfaceConfigured(surfaces, h_surfaces, s)
    /\ emitted' = ConfiguredNotifications(surfaces, h_surfaces, s)
    /\ rpc' = NoRpc
    /\ UNCHANGED <<hostVars, phase, layers, focused_surface, surface_prop_listeners,
                   layer_prop_listeners, listener_contexts, host_pc, uncommitted>>

\* The compositor creates layer l: layer_created_callback.
LayerCreated(l) ==
    /\ phase = "running"
    /\ l \notin h_layers
    /\ h_layers' = h_layers \cup {l}
    /\ h_layer_props' = [m \in h_layers \cup {l} |-> IF m = l THEN SeedLayer ELSE h_layer_props[m]]
    /\ layers' = [m \in DOMAIN layers \cup {l} |->
                     IF m = l THEN ReadLayer(h_layer_props', l) ELSE layers[m]]
    /\ emitted' = <<Notification("LayerCreated", l, None, None)>>
    /\ layer_prop_listeners' =
          RegisterLayerPropertyListener(layer_prop_listeners, listener_contexts, h_layers', l).map
    /\ listener_contexts' =
          RegisterLayerPropertyListener(layer_prop_listeners, listener_contexts, h_layers', l).ctx
    /\ rpc' = NoRpc
    /\ UNCHANGED <<h_surfaces, phase, surfaces, focused_surface, surface_prop_listeners,
                   uncommitted, host_pc>>

\* The compositor removes layer l: layer_removed_callback.
LayerRemoved(l) ==
    /\ phase = "running"
    /\ l \in h_layers
    /\ h_layers' = h_layers \ {l}
    /\ h_layer_props' = [m \in h_layers \ {l} |-> h_layer_props[m]]
    /\ layers' = [m \in DOMAIN layers \ {l} |-> layers[m]]
    /\ emitted' = <<Notification("LayerDestroyed", l, None, None)>>
    /\ layer_prop_listeners' =
          RemoveLayerPropertyListener(layer_prop_listeners, listener_contexts, l).map
    /\ listener_contexts' =
          RemoveLayerPropertyListener(layer_prop_listeners, listener_contexts, l).ctx
    /\ rpc' = NoRpc
    /\ UNCHANGED <<h_surfaces, phase, surfaces, focused_surface, surface_prop_listeners,
                   uncommitted, host_pc>>

\* The scene of the specifications that leave it alone.
SceneInit ==
    /\ h_surfaces = <<>>
    /\ h_layers = {}
    /\ h_layer_props = <<>>
    /\ CoreInit

\* ---------------------------------------------------------- RPC handlers
Positions == {<<0, 0>>, <<50, 60>>}
Sizes == {<<100, 100>>, <<300, 200>>}
\* Opacities in thousandths: 0.8, 1.0 and the invalid 1.5.
Opacities == {800, 1000, 1500}

\* validate_position: i32::MIN / 2 and i32::MAX / 2.
MinCoord == -1073741824
MaxCoord == 1073741823
\* The range handle_set_z_order validates against.
MinZOrder == 0
MaxZOrder == 1000
\* The names serde accepts for an Orientation.
OrientationNames == {"Normal", "Rotate90", "Rotate180", "Rotate270"}

\* validation.rs and the parameter parsing, for the arguments the model draws.
Valid(method, arg) ==
    CASE method \in {"set_opacity", "set_layer_opacity"} -> arg[1] >= 0 /\ arg[1] <= 1000
      [] method = "set_size" -> arg[1] > 0 /\ arg[2] > 0
      [] method = "set_position" ->
            /\ arg[1] >= MinCoord /\ arg[1] <= MaxCoord
            /\ arg[2] >= MinCoord /\ arg[2] <= MaxCoord
      [] method = "set_z_order" -> arg[1] >= MinZOrder /\ arg[1] <= MaxZOrder
      [] method = "set_orientation" -> arg[1] \in OrientationNames
      [] OTHER -> TRUE

\* The capability call of each mutator.
Written(method, s, arg) ==
    CASE method = "set_position" -> SetPosition(h_surfaces, s, arg[1], arg[2])
      [] method = "set_size" -> SetSize(h_surfaces, s, arg[1], arg[2])
      [] method = "set_opacity" -> SetOpacity(h_surfaces, s, arg[1])
      [] method = "set_visibility" -> SetVisibility(h_surfaces, s, arg[1])

\* RpcError's constructors: the code each error is sent with; a result has none.
ErrorCode(response) ==
    CASE response = "parse_error" -> -32700
      [] response = "method_not_found" -> -32601
      [] response = "invalid_params" -> -32602
      [] response = "internal_error" -> -32603
      [] response = "surface_not_found" -> -32000
      [] response = "layer_not_found" -> -32000
      [] OTHER -> 0

\* A handler that looked the surface up before validating the value.
MutatorResponseLookupFirst(method, s, arg) ==
    IF s \notin DOMAIN surfaces THEN "surface_not_found"
    ELSE IF ~Valid(method, arg) THEN "invalid_params"
    ELSE IF s \notin DOMAIN h_surfaces THEN "internal_error"
    ELSE "success"

\* The error a mutator answers with, or "success".
MutatorResponse(method, s, arg) ==
    IF ~Valid(method, arg) THEN "invalid_params"
    ELSE IF s \notin DOMAIN surfaces THEN "surface_not_found"
    ELSE IF s \notin DOMAIN h_surfaces THEN "internal_error"
    ELSE "success"

\* The capability calls a handler makes on its way to the response: the
\* lookup, the writer, and commit_changes with auto_commit.
Calls(response, lookup, writer, auto_commit) ==
    IF response \in {"invalid_params", "surface_not_found"} THEN <<>>
    ELSE IF response = "internal_error" THEN <<lookup>>
    ELSE <<lookup>> \o writer \o (IF auto_commit THEN <<"commit_changes">> ELSE <<>>)

\* handle_set_position, handle_set_size, handle_set_visibility and
\* handle_set_opacity: validate, has_surface, the capability call, and with
\* auto_commit commit_changes followed by handle_surface_configured(id).
Mutator(method, s, arg, auto_commit) ==
    /\ phase = "running"
    /\ auto_commit \/ Len(uncommitted) < MaxBatch
    /\ rpc' = [NoRpc EXCEPT !.method = method, !.id = s, !.arg = arg,
                            !.auto_commit = auto_commit,
                            !.response = MutatorResponse(method, s, arg),
                            !.calls = Calls(MutatorResponse(method, s, arg),
                                            "get_surface_from_id", <<method>>, auto_commit)]
    /\ IF MutatorResponse(method, s, arg) # "success"
       THEN /\ emitted' = <<>>
            /\ UNCHANGED <<h_surfaces, h_layer_props, surfaces, layers, uncommitted>>
       ELSE IF auto_commit
       THEN LET done == CommitChanges(surfaces, Written(method, s, arg))
                ldone == CommitLayerChanges(layers, h_layer_props)
                hs == HostCommit(Written(method, s, arg))
            IN  /\ h_surfaces' = hs
                /\ h_layer_props' = LayerHostCommit(h_layer_props)
                /\ layers' = ldone.mir
                /\ surfaces' = HandleSurfaceConfigured(done.mir, hs, s)
                /\ emitted' = ldone.out \o done.out \o ConfiguredNotifications(done.mir, hs, s)
                /\ uncommitted' = <<>>
       ELSE /\ h_surfaces' = Written(method, s, arg)
            /\ emitted' = <<>>
            /\ uncommitted' = Append(uncommitted, <<method, s, arg>>)
            /\ UNCHANGED <<h_layer_props, surfaces, layers>>
    /\ UNCHANGED <<h_layers, phase, focused_surface, surface_prop_listeners,
                   layer_prop_listeners, listener_contexts, host_pc>>

RpcSetPosition(s, pos, auto_commit) == Mutator("set_position", s, pos, auto_commit)

RpcSetSize(s, size, auto_commit) == Mutator("set_size", s, size, auto_commit)

RpcSetOpacity(s, k, auto_commit) == Mutator("set_opacity", s, <<k>>, auto_commit)

RpcSetVisibility(s, v, auto_commit) == Mutator("set_visibility", s, <<v>>, auto_commit)

\* handle_commit: commit_changes and nothing else.
RpcCommit ==
    /\ phase = "running"
    /\ LET done == CommitChanges(surfaces, h_surfaces)
           ldone == CommitLayerChanges(layers, h_layer_props)
       IN  /\ h_surfaces' = HostCommit(h_surfaces)
           /\ h_layer_props' = LayerHostCommit(h_layer_props)
           /\ surfaces' = done.mir
           /\ layers' = ldone.mir
           /\ emitted' = ldone.out \o done.out
    /\ rpc' = [NoRpc EXCEPT !.method = "commit", !.response = "success",
                            !.calls = <<"commit_changes">>]
    /\ uncommitted' = <<>>
    /\ UNCHANGED <<h_layers, phase, focused_surface, surface_prop_listeners,
                   layer_prop_listeners, listener_contexts, host_pc>>

\* handle_set_focus: has_surface and set_focused_surface under one lock,
\* then the capability's focus calls, then commit_changes with auto_commit.
RpcSetFocus(s, auto_commit) ==
    /\ phase = "running"
    /\ LET response == IF s \notin DOMAIN surfaces THEN "surface_not_found"
                       ELSE IF s \notin DOMAIN h_surfaces THEN "internal_error"
                       ELSE "success"
           focus == IF s \in DOMAIN surfaces THEN Some(s) ELSE focused_surface
           commits == response = "success" /\ auto_commit
           done == CommitChanges(surfaces, h_surfaces)
           ldone == CommitLayerChanges(layers, h_layer_props)
       IN  /\ focused_surface' = focus
           /\ h_surfaces' = IF commits THEN HostCommit(h_surfaces) ELSE h_surfaces
           /\ h_layer_props' = IF commits THEN LayerHostCommit(h_layer_props) ELSE h_layer_props
           /\ surfaces' = IF commits THEN done.mir ELSE surfaces
           /\ layers' = IF commits THEN ldone.mir ELSE layers
           /\ emitted' = FocusNotifications(focused_surface, focus)
                           \o (IF commits THEN ldone.out \o done.out ELSE <<>>)
           /\ uncommitted' = IF commits THEN <<>> ELSE uncommitted
           /\ rpc' = [NoRpc EXCEPT !.method = "set_focus", !.id = s,
                                   !.auto_commit = auto_commit, !.response = response,
                                   !.calls = Calls(response, "get_surface_from_id",
                                                   <<"set_keyboard_focus", "set_pointer_focus">>,
                                                   auto_commit)]
    /\ UNCHANGED <<h_layers, phase, surface_prop_listeners, layer_prop_listeners, listener_contexts, host_pc>>

\* handle_get_surface: the snapshot, or surface_not_found.
RpcGetSurface(s) ==
    /\ phase = "running"
    /\ rpc' = [NoRpc EXCEPT !.method = "get_surface", !.id = s,
                            !.response = IF s \in DOMAIN surfaces THEN "success"
                                         ELSE "surface_not_found"]
    /\ emitted' = <<>>
    /\ UNCHANGED <<hostVars, phase, surfaces, layers, focused_surface, surface_prop_listeners,
                   layer_prop_listeners, listener_contexts, host_pc, uncommitted>>

\* handle_get_layer: the snapshot, or invalid_params("Layer .. not found").
RpcGetLayer(l) ==
    /\ phase = "running"
    /\ rpc' = [NoRpc EXCEPT !.method = "get_layer", !.id = l,
                            !.response = IF l \in DOMAIN layers THEN "success"
                                         ELSE "invalid_params"]
    /\ emitted' = <<>>
    /\ UNCHANGED <<hostVars, phase, surfaces, layers, focused_surface, surface_prop_listeners,
                   layer_prop_listeners, listener_contexts, host_pc, uncommitted>>

\* A handler that stored the orientation in the mirror and answered success.
RpcSetOrientationApplied(s, o, auto_commit) ==
    /\ phase = "running"
    /\ rpc' = [NoRpc EXCEPT !.method = "set_orientation", !.id = s, !.arg = <<o>>,
                            !.auto_commit = auto_commit,
                            !.response = IF ~Valid("set_orientation", <<o>>) THEN "invalid_params"
                                         ELSE IF s \notin DOMAIN surfaces THEN "surface_not_found"
                                         ELSE "success"]
    /\ surfaces' = IF Valid("set_orientation", <<o>>) /\ s \in DOMAIN surfaces
                   THEN [surfaces EXCEPT ![s].orientation = o]
                   ELSE surfaces
    /\ emitted' = <<>>
    /\ UNCHANGED <<hostVars, phase, layers, focused_surface, surface_prop_listeners,
                   layer_prop_listeners, listener_contexts, host_pc, uncommitted>>

\* handle_set_orientation: has_surface, then always the internal error.
RpcSetOrientation(s, o, auto_commit) ==
    /\ phase = "running"
    /\ rpc' = [NoRpc EXCEPT !.method = "set_orientation", !.id = s, !.arg = <<o>>,
                            !.auto_commit = auto_commit,
                            !.response = IF ~Valid("set_orientation", <<o>>) THEN "invalid_params"
                                         ELSE IF s \notin DOMAIN surfaces THEN "surface_not_found"
                                         ELSE "internal_error"]
    /\ emitted' = <<>>
    /\ UNCHANGED <<hostVars, phase, surfaces, layers, focused_surface, surface_prop_listeners,
                   layer_prop_listeners, listener_contexts, host_pc, uncommitted>>

\* handle_set_z_order: validate, has_surface, IviSurface::set_z_order, and
\* with auto_commit commit_changes, the mirror's z_order and ZOrderChanged.
RpcSetZOrder(s, z, auto_commit) ==
    /\ phase = "running"
    /\ auto_commit \/ Len(uncommitted) < MaxBatch
    /\ LET response == MutatorResponse("set_z_order", s, <<z>>)
           written == SetZOrder(h_layer_props, s, z)
           done == CommitChanges(surfaces, h_surfaces)
           ldone == CommitLayerChanges(layers, written)
       IN  /\ rpc' = [NoRpc EXCEPT !.method = "set_z_order", !.id = s, !.arg = <<z>>,
                                   !.auto_commit = auto_commit, !.response = response,
                                   !.calls = Calls(response, "get_surface_from_id",
                                                   <<"set_z_order">>, auto_commit)]
           /\ IF response # "success"
              THEN /\ emitted' = <<>>
                   /\ UNCHANGED <<h_surfaces, h_layer_props, surfaces, layers, uncommitted>>
              ELSE IF auto_commit
              THEN /\ h_surfaces' = HostCommit(h_surfaces)
                   /\ h_layer_props' = LayerHostCommit(written)
                   /\ layers' = ldone.mir
                   /\ surfaces' = IF s \in DOMAIN done.mir
                                  THEN [done.mir EXCEPT ![s].z_order = z]
                                  ELSE done.mir
                   /\ emitted' = ldone.out \o done.out
                                   \o (IF s \in DOMAIN done.mir
                                       THEN <<Notification("ZOrderChanged", s,
                                                           done.mir[s].z_order, z)>>
                                       ELSE <<>>)
                   /\ uncommitted' = <<>>
              ELSE /\ h_layer_props' = written
                   /\ emitted' = <<>>
                   /\ uncommitted' = Append(uncommitted, <<"set_z_order", s, <<z>>>>)
                   /\ UNCHANGED <<h_surfaces, surfaces, layers>>
    /\ UNCHANGED <<h_layers, phase, focused_surface, surface_prop_listeners,
                   layer_prop_listeners, listener_contexts, host_pc>>

\* The capability call of each layer mutator.
LayerWritten(method, l, arg) ==
    CASE method = "set_layer_visibility" -> SetLayerVisibility(h_layer_props, l, arg[1])
      [] method = "set_layer_opacity" -> SetLayerOpacity(h_layer_props, l, arg[1])

\* The error a layer mutator answers with, or "success": a layer that is
\* not mirrored is answered with RpcError::invalid_params.
LayerMutatorResponse(method, l, arg) ==
    IF ~Valid(method, arg) THEN "invalid_params"
    ELSE IF l \notin DOMAIN layers THEN "invalid_params"
    ELSE IF l \notin h_layers THEN "internal_error"
    ELSE "success"

\* handle_set_layer_visibility and handle_set_layer_opacity: validate,
\* has_layer, the capability call, and with auto_commit commit_changes
\* followed by handle_layer_configured(id).
LayerMutator(method, l, arg, auto_commit) ==
    /\ phase = "running"
    /\ auto_commit \/ Len(uncommitted) < MaxBatch
    /\ rpc' = [NoRpc EXCEPT !.method = method, !.id = l, !.arg = arg,
                            !.auto_commit = auto_commit,
                            !.response = LayerMutatorResponse(method, l, arg),
                            !.calls = Calls(LayerMutatorResponse(method, l, arg),
                                            "get_layer_from_id", <<method>>, auto_commit)]
    /\ IF LayerMutatorResponse(method, l, arg) # "success"
       THEN /\ emitted' = <<>>
            /\ UNCHANGED <<h_surfaces, h_layer_props, surfaces, layers, uncommitted>>
       ELSE IF auto_commit
       THEN LET done == CommitChanges(surfaces, h_surfaces)
                ldone == CommitLayerChanges(layers, LayerWritten(method, l, arg))
                hl == LayerHostCommit(LayerWritten(method, l, arg))
            IN  /\ h_surfaces' = HostCommit(h_surfaces)
                /\ h_layer_props' = hl
                /\ surfaces' = done.mir
                /\ layers' = HandleLayerConfigured(ldone.mir, hl, l)
                /\ emitted' = ldone.out \o done.out
                                \o LayerConfiguredNotifications(ldone.mir, hl, l)
                /\ uncommitted' = <<>>
       ELSE /\ h_layer_props' = LayerWritten(method, l, arg)
            /\ emitted' = <<>>
            /\ uncommitted' = Append(uncommitted, <<method, l, arg>>)
            /\ UNCHANGED <<h_surfaces, surfaces, layers>>
    /\ UNCHANGED <<h_layers, phase, focused_surface, surface_prop_listeners,
                   layer_prop_listeners, listener_contexts, host_pc>>

RpcSetLayerVisibility(l, v, auto_commit) ==
    LayerMutator("set_layer_visibility", l, <<v>>, auto_commit)

RpcSetLayerOpacity(l, k, auto_commit) == LayerMutator("set_layer_opacity", l, <<k>>, auto_commit)

\* ------------------------------ the mirror beside the compositor's scene
\* The compositor's scene when the plugin is loaded.
HostInit ==
    /\ h_surfaces \in {[s \in S |-> SeedSurface] : S \in SUBSET SurfaceIds}
    /\ h_layers \in SUBSET LayerIds
    /\ h_layer_props = [l \in h_layers |-> SeedLayer]

\* The subscription side stays as built, with the largest outbox.
Init ==
    /\ SubInit /\ PumpInit /\ HistInit /\ TransInit /\ WireInit /\ EmitInit /\ HostInit /\ CoreInit
    /\ buffer_size = MaxCap

Frozen == UNCHANGED <<subVars, pumpVars, histVars, transVars, wireVars, emitVars>>

Next ==
    \/ PluginInit /\ Frozen
    \/ \E s \in SurfaceIds : SurfaceCreated(s) /\ Frozen
    \/ \E s \in SurfaceIds : SurfaceRemoved(s) /\ Frozen
    \/ \E s \in SurfaceIds : SurfaceConfigured(s) /\ Frozen
    \/ \E l \in LayerIds : LayerCreated(l) /\ Frozen
    \/ \E l \in LayerIds : LayerRemoved(l) /\ Frozen
    \/ \E s \in SurfaceIds, a \in BOOLEAN : RpcSetFocus(s, a) /\ Frozen
    \/ \E s \in SurfaceIds, v \in BOOLEAN, a \in BOOLEAN : RpcSetVisibility(s, v, a) /\ Frozen
    \/ RpcCommit /\ Frozen

Spec == Init /\ [][Next]_vars

\* --------------------------------- mutators and commit on a seeded scene
\* The scene of the end-to-end scenarios: surface 1000 as seeded.
InitBatch ==
    /\ SubInit /\ PumpInit /\ HistInit /\ TransInit /\ WireInit /\ EmitInit /\ CoreInit
    /\ buffer_size = MaxCap
    /\ h_surfaces = [s \in {1000} |-> SeedSurface]
    /\ h_layers = {}
    /\ h_layer_props = <<>>

NextBatch ==
    \/ PluginInit /\ Frozen
    \/ \E s \in SurfaceIds, pos \in Positions, a \in BOOLEAN : RpcSetPosition(s, pos, a) /\ Frozen
    \/ \E s \in SurfaceIds, size \in Sizes, a \in BOOLEAN : RpcSetSize(s, size, a) /\ Frozen
    \/ \E s \in SurfaceIds, k \in Opacities, a \in BOOLEAN : RpcSetOpacity(s, k, a) /\ Frozen
    \/ RpcCommit /\ Frozen

SpecBatch == InitBatch /\ [][NextBatch]_vars

\* ------------------------------------------------- transport and handlers
\* The listener accepts a connection and gives it the next client id.
Accept ==
    /\ next_client_id \in ClientIds
    /\ clients' = clients \cup {next_client_id}
    /\ next_client_id' = next_client_id + 1
    /\ UNCHANGED <<buffer_size, subscriptions, seq, pumpVars>>

HandleSubscribe(c, ets) ==
    /\ c \in clients
    /\ subscriptions' = Subscribe(subscriptions, c, ets)
    /\ UNCHANGED <<buffer_size, clients, next_client_id, seq, pumpVars>>

HandleUnsubscribe(c, ets) ==
    /\ c \in clients
    /\ subscriptions' = Unsubscribe(subscriptions, c, ets)
    /\ UNCHANGED <<buffer_size, clients, next_client_id, seq, pumpVars>>

\* The bridge callback: one emitted notification of topic t is queued.
HandleNotification(t) ==
    /\ seq < MaxNotifs
    /\ subscriptions' = QueueNotification(subscriptions, t, seq + 1)
    /\ seq' = seq + 1
    /\ UNCHANGED <<buffer_size, clients, next_client_id, pumpVars>>

\* The event loop's cleanup of a closed connection.
HandleDisconnect(c) ==
    /\ c \in clients
    /\ clients' = clients \ {c}
    /\ subscriptions' = RemoveClient(subscriptions, c)
    /\ UNCHANGED <<buffer_size, next_client_id, seq, pumpVars>>

\* One drain_notifications(c), as the delivery thread calls it for a client
\* of an earlier snapshot, connected still or not.
Drain(c) ==
    /\ c \in 1..(next_client_id - 1)
    /\ subscriptions' = DrainNotifications(subscriptions, c)
    /\ UNCHANGED <<buffer_size, clients, next_client_id, seq, pumpVars>>

\* ------------------------------------------------------ notification pump
GetConnectedClients == clients

\* The transport slot is locked for get_connected_clients and released;
\* lock().unwrap() of a poisoned slot panics.
PumpSnapshot ==
    /\ pump_pc = "sleep"
    /\ slot_lock \in {"free", "poisoned"}
    /\ IF slot_lock = "poisoned"
       THEN pump_pc' = "panicked" /\ UNCHANGED pump_clients
       ELSE /\ \E order \in Orders(GetConnectedClients) : pump_clients' = order
            /\ pump_pc' = "drain"
    /\ UNCHANGED <<subVars, pump_cur, pump_batch, sent, slot_lock>>

PumpDrain ==
    /\ pump_pc = "drain"
    /\ IF pump_clients = <<>>
       THEN /\ pump_pc' = "sleep"
            /\ UNCHANGED <<subVars, pump_clients, pump_cur, pump_batch, sent>>
       ELSE LET c == Head(pump_clients)
                batch == DrainResult(subscriptions, c)
            IN  /\ subscriptions' = DrainNotifications(subscriptions, c)
                /\ pump_clients' = Tail(pump_clients)
                /\ pump_cur' = IF batch = <<>> THEN 0 ELSE c
                /\ pump_batch' = batch
                /\ pump_pc' = IF batch = <<>> THEN "drain" ELSE "send"
                /\ UNCHANGED <<buffer_size, clients, next_client_id, seq, sent>>
    /\ UNCHANGED slot_lock

\* One Transport::send, under the transport slot's mutex and then the
\* TransportState mutex; a failure (the client is gone) is only logged.
\* lock().unwrap() of a poisoned mutex panics, and the panic inside send
\* poisons the slot whose guard is dropped by the unwinding.
PumpSend ==
    /\ pump_pc = "send"
    /\ slot_lock = "poisoned" \/ (slot_lock = "free" /\ state_lock = "free")
    /\ IF slot_lock = "poisoned" \/ poisoned
       THEN /\ pump_pc' = "panicked"
            /\ slot_lock' = "poisoned"
            /\ UNCHANGED <<sent, pump_batch, pump_cur>>
       ELSE /\ sent' = IF pump_cur \in clients
                       THEN [sent EXCEPT ![pump_cur] = Append(@, Head(pump_batch))]
                       ELSE sent
            /\ pump_batch' = Tail(pump_batch)
            /\ pump_pc' = IF Tail(pump_batch) = <<>> THEN "drain" ELSE "send"
            /\ pump_cur' = IF Tail(pump_batch) = <<>> THEN 0 ELSE pump_cur
            /\ UNCHANGED slot_lock
    /\ UNCHANGED <<subVars, pump_clients>>

\* ------------------------------------------ history of the manager's calls
Record(op, c) ==
    /\ last' = [NoOp EXCEPT !.op = op, !.client = c]
    /\ UNCHANGED since

\* A disconnect is recorded with the outbox remove_client discards.
RecordDisconnect(c) ==
    /\ last' = [NoOp EXCEPT !.op = "disconnect", !.client = c,
                            !.result = IF c \in DOMAIN subscriptions
                                       THEN subscriptions[c].event_buffer
                                       ELSE <<>>]
    /\ since' = [since EXCEPT ![c] = <<>>]

RecordQueue(t) ==
    /\ last' = [NoOp EXCEPT !.op = "queue", !.topic = t,
                            !.result = <<seq + 1>>]
    /\ since' = [c \in ClientIds |->
                    IF c \in DOMAIN subscriptions /\ t \in subscriptions[c].event_types
                    THEN Append(since[c], seq + 1)
                    ELSE since[c]]

RecordDrain(c) ==
    /\ last' = [NoOp EXCEPT !.op = "drain", !.client = c,
                            !.result = DrainResult(subscriptions, c),
                            !.queued = since[c]]
    /\ since' = [since EXCEPT ![c] = <<>>]

\* ---------------- the subscription manager behind the handler's endpoints
InitSub == SubInit /\ PumpInit /\ HistInit /\ TransInit /\ WireInit /\ EmitInit /\ SceneInit

NextSub ==
    \/ Accept /\ Record("accept", next_client_id) /\ UNCHANGED <<transVars, hostVars, coreVars, wireVars, emitVars>>
    \/ \E c \in ClientIds, ets \in SUBSET EventTypes :
          HandleSubscribe(c, ets) /\ Record("subscribe", c) /\ UNCHANGED <<transVars, hostVars, coreVars, wireVars, emitVars>>
    \/ \E c \in ClientIds, ets \in SUBSET EventTypes :
          HandleUnsubscribe(c, ets) /\ Record("unsubscribe", c) /\ UNCHANGED <<transVars, hostVars, coreVars, wireVars, emitVars>>
    \/ \E t \in EventTypes : HandleNotification(t) /\ RecordQueue(t) /\ UNCHANGED <<transVars, hostVars, coreVars, wireVars, emitVars>>
    \/ \E c \in ClientIds : HandleDisconnect(c) /\ RecordDisconnect(c) /\ UNCHANGED <<transVars, hostVars, coreVars, wireVars, emitVars>>
    \/ \E c \in ClientIds : Drain(c) /\ RecordDrain(c) /\ UNCHANGED <<transVars, hostVars, coreVars, wireVars, emitVars>>

SpecSub == InitSub /\ [][NextSub]_vars

\* ------------------------- the delivery thread beside the same endpoints
InitPump == SubInit /\ PumpInit /\ HistInit /\ TransInit /\ WireInit /\ EmitInit /\ SceneInit

NextPump ==
    \/ Accept /\ UNCHANGED <<histVars, transVars, hostVars, coreVars, wireVars, emitVars>>
    \/ \E c \in ClientIds, ets \in SUBSET EventTypes :
          HandleSubscribe(c, ets) /\ UNCHANGED <<histVars, transVars, hostVars, coreVars, wireVars, emitVars>>
    \/ \E c \in ClientIds, ets \in SUBSET EventTypes :
          HandleUnsubscribe(c, ets) /\ UNCHANGED <<histVars, transVars, hostVars, coreVars, wireVars, emitVars>>
    \/ \E t \in EventTypes : HandleNotification(t) /\ UNCHANGED <<histVars, transVars, hostVars, coreVars, wireVars, emitVars>>
    \/ \E c \in ClientIds : HandleDisconnect(c) /\ UNCHANGED <<histVars, transVars, hostVars, coreVars, wireVars, emitVars>>
    \/ PumpSnapshot /\ UNCHANGED <<histVars, transVars, hostVars, coreVars, wireVars, emitVars>>
    \/ PumpDrain /\ UNCHANGED <<histVars, transVars, hostVars, coreVars, wireVars, emitVars>>
    \/ PumpSend /\ UNCHANGED <<histVars, transVars, hostVars, coreVars, wireVars, emitVars>>

SpecPump == InitPump /\ [][NextPump]_vars

\* ------------------------------------------- UnixSocketTransport event loop
Methods == {"subscribe", "list_subscriptions"}

\* What a second lock() of the TransportState mutex does to the calling
\* thread: std::sync::Mutex leaves it unspecified for the thread that holds
\* the lock already (it deadlocks or panics, and never returns).
SendOutcomes(thread) ==
    IF state_lock = thread THEN {"deadlock", "panic"} ELSE {"ok"}

\* The effect of RpcHandler::handle_request on the subscription manager.
HandleRequest(c, m) ==
    IF m.method = "subscribe"
    THEN Subscribe(subscriptions, c, {"SurfaceCreated"})
    ELSE subscriptions

\* The (client, message) pairs read_from_client yields, clients in this order.
RECURSIVE Collect(_, _)
Collect(order, box) ==
    IF order = <<>>
    THEN <<>>
    ELSE [i \in 1..Len(box[Head(order)]) |-> <<Head(order), box[Head(order)][i]>>]
            \o Collect(Tail(order), box)

\* A connected client writes one line: a request, or bytes that are no request.
ClientSend(c, method) ==
    /\ c \in clients /\ c \notin closed
    /\ req_count < MaxRequests
    /\ inbox' = [inbox EXCEPT ![c] = Append(@, [id |-> req_count + 1, method |-> method])]
    /\ req_count' = req_count + 1
    /\ UNCHANGED <<stopVars, hostVars, coreVars, wireVars, emitVars, subVars, pumpVars, histVars, running, state_lock, poisoned, ev_pc,
                   ev_messages, ev_disconnected, closed, parsed, responses>>

ClientClose(c) ==
    /\ c \in clients /\ c \notin closed
    /\ closed' = closed \cup {c}
    /\ UNCHANGED <<stopVars, hostVars, coreVars, wireVars, emitVars, subVars, pumpVars, histVars, running, state_lock, poisoned, ev_pc,
                   ev_messages, ev_disconnected, inbox, req_count, parsed, responses>>

\* stop() as far as the event loop sees it: running is cleared under the lock.
Stop ==
    /\ running /\ state_lock = "free" /\ ~poisoned
    /\ running' = FALSE
    /\ UNCHANGED <<stopVars, hostVars, coreVars, wireVars, emitVars, subVars, pumpVars, histVars, state_lock, poisoned, ev_pc, ev_messages,
                   ev_disconnected, inbox, closed, req_count, parsed, responses>>

LoopCheck ==
    /\ ev_pc = "check" /\ state_lock = "free"
    /\ ev_pc' = IF running THEN "accept" ELSE "exited"
    /\ UNCHANGED <<stopVars, hostVars, coreVars, wireVars, emitVars, subVars, pumpVars, histVars, running, state_lock, poisoned, ev_messages,
                   ev_disconnected, inbox, closed, req_count, parsed, responses>>

\* accept_connection: a pending connection is accepted, or accept() would block.
LoopAccept ==
    /\ ev_pc = "accept" /\ state_lock = "free"
    /\ ev_pc' = "read"
    /\ \/ Accept
       \/ UNCHANGED <<subVars, pumpVars>>
    /\ UNCHANGED <<stopVars, hostVars, coreVars, wireVars, emitVars, histVars, running, state_lock, poisoned, ev_messages,
                   ev_disconnected, inbox, closed, req_count, parsed, responses>>

\* Under the lock every connection is read until it would block or is at EOF.
LoopRead ==
    /\ ev_pc = "read" /\ state_lock = "free"
    /\ \E order \in Orders({c \in clients : inbox[c] # <<>>}) :
          ev_messages' = Collect(order, inbox)
    /\ ev_disconnected' = clients \cap closed
    /\ inbox' = [c \in ClientIds |-> IF c \in clients THEN <<>> ELSE inbox[c]]
    /\ ev_pc' = "handle"
    /\ UNCHANGED <<stopVars, hostVars, coreVars, wireVars, emitVars, subVars, pumpVars, histVars, running, state_lock, poisoned,
                   closed, req_count, parsed, responses>>

\* The lock is taken again, and kept while the handler is called.
LoopLock ==
    /\ ev_pc = "handle" /\ state_lock = "free"
    /\ state_lock' = "loop"
    /\ ev_pc' = "handling"
    /\ UNCHANGED <<stopVars, hostVars, coreVars, wireVars, emitVars, subVars, pumpVars, histVars, running, poisoned, ev_messages,
                   ev_disconnected, inbox, closed, req_count, parsed, responses>>

\* handler.handle_message for the next message: parse, handle_request, and
\* under the transport slot's mutex Transport::send of the response, which
\* locks the TransportState mutex.  A slot that stop_transport holds is
\* released only when stop() has returned, which waits for this thread: the
\* thread waiting for it stays where it is.  The thread that ends inside
\* send keeps the slot (deadlock) or poisons it (panic).
LoopHandleMessage ==
    /\ ev_pc = "handling" /\ ev_messages # <<>>
    /\ LET c == Head(ev_messages)[1]
           m == Head(ev_messages)[2]
       IN  IF m.method \notin Methods
           THEN /\ ev_messages' = Tail(ev_messages)
                /\ UNCHANGED <<subVars, state_lock, poisoned, ev_pc, parsed, responses, slot_lock>>
           ELSE /\ parsed' = parsed \cup {<<c, m.id>>}
                /\ subscriptions' = HandleRequest(c, m)
                /\ UNCHANGED <<buffer_size, clients, next_client_id, seq>>
                /\ IF slot_lock # "free"
                   THEN /\ ev_pc' = "slot_wait"
                        /\ UNCHANGED <<state_lock, poisoned, ev_messages, responses, slot_lock>>
                   ELSE \E outcome \in SendOutcomes("loop") :
                      \/ /\ outcome = "ok"
                         /\ responses' = IF c \in clients
                                         THEN [responses EXCEPT ![c] = Append(@, m.id)]
                                         ELSE responses
                         /\ ev_messages' = Tail(ev_messages)
                         /\ UNCHANGED <<state_lock, poisoned, ev_pc, slot_lock>>
                      \/ /\ outcome = "deadlock"
                         /\ ev_pc' = "deadlocked"
                         /\ slot_lock' = "loop"
                         /\ UNCHANGED <<state_lock, poisoned, ev_messages, responses>>
                      \/ /\ outcome = "panic"
                         /\ ev_pc' = "panicked"
                         /\ state_lock' = "free"
                         /\ poisoned' = TRUE
                         /\ slot_lock' = "poisoned"
                         /\ UNCHANGED <<ev_messages, responses>>
    /\ UNCHANGED <<stop_pc, socket_file, hostVars, coreVars, wireVars, emitVars, pumpVars, histVars, running,
                   ev_disconnected, inbox, closed, req_count>>

LoopUnlock ==
    /\ ev_pc = "handling" /\ ev_messages = <<>>
    /\ state_lock' = "free"
    /\ ev_pc' = "cleanup"
    /\ UNCHANGED <<stopVars, hostVars, coreVars, wireVars, emitVars, subVars, pumpVars, histVars, running, poisoned, ev_messages,
                   ev_disconnected, inbox, closed, req_count, parsed, responses>>

\* Disconnected clients are removed and the handler is told of each.
LoopCleanup ==
    /\ ev_pc = "cleanup" /\ state_lock = "free"
    /\ clients' = clients \ ev_disconnected
    /\ subscriptions' = [d \in DOMAIN subscriptions \ ev_disconnected |-> subscriptions[d]]
    /\ ev_disconnected' = {}
    /\ ev_pc' = "check"
    /\ UNCHANGED <<stopVars, hostVars, coreVars, wireVars, emitVars, buffer_size, next_client_id, seq, pumpVars, histVars, running, state_lock,
                   poisoned, ev_messages, inbox, closed, req_count, parsed, responses>>

EventLoop ==
    \/ LoopCheck
    \/ LoopAccept
    \/ LoopRead
    \/ LoopLock
    \/ LoopHandleMessage
    \/ LoopUnlock
    \/ LoopCleanup

InitTransport == SubInit /\ PumpInit /\ HistInit /\ TransInit /\ WireInit /\ EmitInit /\ SceneInit

NextTransport ==
    \/ \E c \in ClientIds, method \in Methods \cup {"garbage"} : ClientSend(c, method)
    \/ \E c \in ClientIds : ClientClose(c)
    \/ Stop
    \/ LoopCheck
    \/ LoopAccept
    \/ LoopRead
    \/ LoopLock
    \/ LoopHandleMessage
    \/ LoopUnlock
    \/ LoopCleanup

SpecTransport == InitTransport /\ [][NextTransport]_vars

\* The event loop is a thread of its own: it runs whenever it is not blocked.
SpecTransportFair == SpecTransport /\ WF_vars(EventLoop)

\* ------------------------------------------------------------------ C1
\* C1: every request that parses as {id, method, params} is eventually
\* answered with exactly one response carrying the same id, written to the
\* client that issued it (unless that client has closed its connection).
Answered(c, i) == Len(SelectSeq(responses[c], LAMBDA r : r = i)) = 1

C1_EveryRequestAnswered ==
    \A c \in ClientIds : \A i \in 1..MaxRequests :
        (<<c, i>> \in parsed) ~> (Answered(c, i) \/ c \in closed)

\* ------------------------------------------------------------------ C4
\* C4: for every client and every capacity the manager is constructed with,
\* the client's outbox never holds more notifications than the capacity.
C4_OutboxWithinCapacity ==
    \A c \in DOMAIN subscriptions :
        Len(subscriptions[c].event_buffer) <= buffer_size

\* ------------------------------------------------------------------ C5
\* C5: when more notifications than the capacity were queued for a client
\* since its last drain, the drain returns exactly the most recent
\* capacity-many of them, in the order they were queued.
C5_DrainReturnsNewest ==
    (last.op = "drain" /\ Len(last.queued) > buffer_size)
        => last.result = Suffix(last.queued, buffer_size)

\* ------------------------------------------------------------------ C6
\* C6: the notifications the delivery thread sends to one client leave in
\* the order they were queued, within one pump iteration and across them.
C6_SentInQueueOrder ==
    \A c \in ClientIds :
        \A i, j \in 1..Len(sent[c]) : i < j => sent[c][i] < sent[c][j]

\* With room for one notification, two sends to a client are two iterations.
C6_Witness ==
    \E c \in ClientIds :
        /\ Len(sent[c]) >= 2
        /\ buffer_size = 1 \/ (buffer_size = 2 /\ Len(sent[c]) >= 3)

\* ------------------------------------------------------------------ C7
\* C7: queue_notification(topic, n) appends n to the outbox of every client
\* subscribed to topic and leaves every other client's entry as it was.
C7_QueueReachesExactlySubscribers ==
    [][last'.op = "queue" =>
        /\ DOMAIN subscriptions' = DOMAIN subscriptions
        /\ \A c \in DOMAIN subscriptions :
              LET old == subscriptions[c].event_buffer
                  new == subscriptions'[c].event_buffer
              IN  IF last'.topic \in subscriptions[c].event_types
                  THEN /\ new # <<>>
                       /\ new[Len(new)] = last'.result[1]
                       /\ SubSeq(new, 1, Len(new) - 1) \in {old, PopFront(old)}
                       /\ subscriptions'[c].event_types = subscriptions[c].event_types
                  ELSE subscriptions'[c] = subscriptions[c]]_vars

\* A notification was queued with one client subscribed to its topic and
\* another subscribed only to a different one.
C7_Witness ==
    /\ last.op = "queue"
    /\ \E c, d \in DOMAIN subscriptions :
          /\ last.topic \in subscriptions[c].event_types
          /\ subscriptions[c].event_buffer # <<>>
          /\ subscriptions[c].event_buffer[Len(subscriptions[c].event_buffer)] = last.result[1]
          /\ last.topic \notin subscriptions[d].event_types
          /\ subscriptions[d].event_types # {}

\* ------------------------------------------------------------------ C8
\* C8: once client C has disconnected, get_subscriptions(C) is empty and
\* draining C returns nothing, in every later state.
C8_DisconnectedClientHasNothing ==
    /\ \A c \in Disconnected :
          /\ GetSubscriptions(subscriptions, c) = {}
          /\ DrainResult(subscriptions, c) = <<>>
    /\ (last.op = "drain" /\ last.client \in Disconnected) => last.result = <<>>

\* A client holding undelivered notifications has just been disconnected.
C8_Witness ==
    /\ last.op = "disconnect"
    /\ last.client \in Disconnected
    /\ last.result # <<>>


\* ------------------------------------------------------------------ C2
\* C2: once the plugin runs, after every host event, after the startup
\* synchronisation and after every RPC call, the mirror's surface ids are the
\* host's surface ids and the mirror's layer ids are the host's layer ids.
C2_MirrorIdsMatchHost ==
    phase = "running" =>
        /\ DOMAIN surfaces = DOMAIN h_surfaces
        /\ DOMAIN layers = h_layers

\* ------------------------------------------------------------------ C3
\* C3: after every host event and every RPC call, the focused surface id is
\* None or the id of a surface present in the surface mirror.
C3_FocusIsMirrored ==
    focused_surface = None \/ \E s \in DOMAIN surfaces : focused_surface = Some(s)

\* The focused surface has just been removed, and another is still mirrored.
C3_Witness ==
    /\ Len(emitted) = 2
    /\ emitted[1].type = "SurfaceDestroyed"
    /\ emitted[2].type = "FocusChanged"
    /\ emitted[2].old = Some(emitted[1].id)
    /\ focused_surface = None
    /\ surfaces # <<>>

\* ------------------------------------------------------------------ C9
\* The notifications of one type for surface s among out.
Queued(type, s, out) == SelectSeq(out, LAMBDA n : n.type = type /\ n.id = s)

\* Since the last commit exactly set_position then set_size were accepted,
\* both without auto_commit and for the same surface.
PositionThenSize ==
    /\ Len(uncommitted) = 2
    /\ uncommitted[1][1] = "set_position"
    /\ uncommitted[2][1] = "set_size"
    /\ uncommitted[1][2] = uncommitted[2][2]

\* The rectangle the two calls of PositionThenSize ask for.
RequestedRect ==
    <<uncommitted[1][3][1], uncommitted[1][3][2], uncommitted[2][3][1], uncommitted[2][3][2]>>

\* C9: set_position then set_size on a tracked surface, both without
\* auto_commit, queue no notification; the commit that follows a pair asking
\* for another rectangle than the mirrored one queues exactly one
\* DestinationGeometryChanged for that surface.
C9_BatchNotifiesOnceAtCommit ==
    [][/\ (rpc'.method \in {"set_position", "set_size"} /\ ~rpc'.auto_commit) => emitted' = <<>>
       /\ (/\ rpc'.method = "commit"
           /\ PositionThenSize
           /\ RequestedRect # surfaces[uncommitted[1][2]].dest)
          => Len(Queued("DestinationGeometryChanged", uncommitted[1][2], emitted')) = 1]_vars

\* ------------------------------------------------------------------ C10
\* A valid set_opacity with auto_commit on a mirrored surface has just run.
OpacitySet ==
    /\ rpc'.method = "set_opacity"
    /\ rpc'.auto_commit
    /\ Valid("set_opacity", rpc'.arg)
    /\ rpc'.id \in DOMAIN surfaces

SourceRects == {<<0, 0, 100, 100>>, <<0, 0, 50, 50>>}
DestRects == {<<0, 0, 100, 100>>, <<50, 60, 300, 200>>}
Orientations == {"Normal", "Rotate90"}
FixedOpacities == {F32ToFixed(800), F32ToFixed(1000)}

\* The event masks the compositor reports: at most two bits set.
Masks == {m \in SUBSET Categories : Cardinality(m) <= 2}

\* The properties the compositor may hold for a surface.
HostProps ==
    [src : SourceRects, dest : DestRects, opacity : FixedOpacities, visibility : BOOLEAN,
     orientation : Orientations, mask : Masks]

\* The snapshots the mirror may hold for it.
Snapshots ==
    [src : SourceRects, dest : DestRects, opacity : FixedOpacities, visibility : BOOLEAN,
     orientation : Orientations, z_order : {0}]

\* Surface 1000 is mirrored with any snapshot, or is not mirrored, while the
\* compositor holds any properties and event mask for it.
InitDiff ==
    /\ SubInit /\ PumpInit /\ HistInit /\ TransInit /\ WireInit /\ EmitInit
    /\ buffer_size = MaxCap
    /\ h_surfaces \in {[s \in {1000} |-> [prop |-> p, pending |-> [p EXCEPT !.mask = {}]]] :
                          p \in HostProps}
    /\ h_layers = {}
    /\ h_layer_props = <<>>
    /\ phase = "running"
    /\ surfaces \in {[s \in {1000} |-> snap] : snap \in Snapshots} \cup {<<>>}
    /\ layers = <<>>
    /\ focused_surface = None
    /\ surface_prop_listeners = {1000}
    /\ layer_prop_listeners = {}
    /\ listener_contexts = InitialListeners({1000}, {})
    /\ host_pc = <<>>
    /\ emitted = <<>>
    /\ rpc = NoRpc
    /\ uncommitted = <<>>

NextDiff == \E s \in SurfaceIds : SurfaceConfigured(s) /\ Frozen

SpecDiff == InitDiff /\ [][NextDiff]_vars

\* ------------------------------------------------------------------ C13
\* The attribute categories of a snapshot: the field, the notification type
\* and the mask bits that stand for it.
AttributeCategories ==
    {[field |-> "src", type |-> "SourceGeometryChanged", bits |-> {"SourceRect"}],
     [field |-> "dest", type |-> "DestinationGeometryChanged",
      bits |-> {"DestRect", "Position", "Dimension"}],
     [field |-> "visibility", type |-> "VisibilityChanged", bits |-> {"Visibility"}],
     [field |-> "opacity", type |-> "OpacityChanged", bits |-> {"Opacity"}],
     [field |-> "orientation", type |-> "OrientationChanged", bits |-> {"Orientation"}]}

\* C13: when handle_surface_configured finds a prior snapshot, it emits one
\* notification for each attribute category that differs between the old
\* and the new snapshot and whose mask bit is set (mask 0: every bit), and
\* nothing for any other category.
C13_OnePerGatedDifference ==
    [][\A s \in DOMAIN surfaces \cap DOMAIN h_surfaces :
          SurfaceConfigured(s) =>
            LET mask == h_surfaces[s].prop.mask
                differs(a) == surfaces[s][a.field] # surfaces'[s][a.field]
                gated(a) == mask = {} \/ mask \cap a.bits # {}
            IN  \A a \in AttributeCategories :
                   Len(Queued(a.type, s, emitted')) = (IF differs(a) /\ gated(a) THEN 1 ELSE 0)]_vars

\* ------------------------------------------------------------------ C12
\* C12: when the focused surface is destroyed, it leaves the mirror,
\* SurfaceDestroyed(id) is emitted first and FocusChanged(Some(id) -> None)
\* after it, and the focus is None afterwards.
C12_DestroyedThenFocusCleared ==
    [][\A s \in SurfaceIds :
          (s \in DOMAIN h_surfaces /\ s \notin DOMAIN h_surfaces' /\ focused_surface = Some(s))
          => /\ s \notin DOMAIN surfaces'
             /\ emitted' = <<Notification("SurfaceDestroyed", s, None, None),
                             Notification("FocusChanged", 0, Some(s), None)>>
             /\ focused_surface' = None]_vars

\* Surface 1000 had the focus and has just been destroyed.
C12_Witness ==
    /\ emitted = <<Notification("SurfaceDestroyed", 1000, None, None),
                   Notification("FocusChanged", 0, Some(1000), None)>>
    /\ 1000 \notin DOMAIN surfaces
    /\ 1000 \notin DOMAIN h_surfaces
    /\ focused_surface = None

\* ------------------- refused requests, z-order, orientation and layer calls
\* A position outside validate_position's range beside one inside it.
CallPositions == {<<50, 60>>, <<MaxCoord + 1, 0>>}
CallSizes == {<<300, 200>>, <<0, 100>>}
CallOpacities == {800, 1500}
ZOrders == {MinZOrder, 5, MaxZOrder + 1}
CallOrientations == {"Rotate90", "Sideways"}

\* The request is one the surface mutator answers with an error.
Refused(method, s, arg) == MutatorResponse(method, s, arg) # "success"

\* Surface 1000 is on the compositor's layer 2000 when the plugin is loaded.
InitCalls ==
    /\ SubInit /\ PumpInit /\ HistInit /\ TransInit /\ WireInit /\ EmitInit /\ CoreInit
    /\ buffer_size = MaxCap
    /\ h_surfaces = [s \in {1000} |-> SeedSurface]
    /\ h_layers = {2000}
    /\ h_layer_props = [l \in {2000} |->
                           [prop |-> [SeedLayerProps EXCEPT !.order = <<1000>>],
                            pending |-> [SeedLayerProps EXCEPT !.order = <<1000>>]]]

NextCalls ==
    \/ PluginInit /\ Frozen
    \/ \E l \in LayerIds : LayerCreated(l) /\ Frozen
    \/ \E l \in LayerIds : LayerRemoved(l) /\ Frozen
    \/ \E s \in SurfaceIds : RpcGetSurface(s) /\ Frozen
    \/ \E l \in LayerIds : RpcGetLayer(l) /\ Frozen
    \/ \E s \in SurfaceIds, pos \in CallPositions, a \in BOOLEAN :
          Refused("set_position", s, pos) /\ RpcSetPosition(s, pos, a) /\ Frozen
    \/ \E s \in SurfaceIds, size \in CallSizes, a \in BOOLEAN :
          Refused("set_size", s, size) /\ RpcSetSize(s, size, a) /\ Frozen
    \/ \E s \in SurfaceIds, k \in CallOpacities, a \in BOOLEAN :
          Refused("set_opacity", s, <<k>>) /\ RpcSetOpacity(s, k, a) /\ Frozen
    \/ \E s \in SurfaceIds, v \in BOOLEAN, a \in BOOLEAN :
          Refused("set_visibility", s, <<v>>) /\ RpcSetVisibility(s, v, a) /\ Frozen
    \/ \E s \in SurfaceIds, a \in BOOLEAN :
          s \notin DOMAIN surfaces /\ RpcSetFocus(s, a) /\ Frozen
    \/ \E s \in SurfaceIds, o \in CallOrientations, a \in BOOLEAN :
          RpcSetOrientation(s, o, a) /\ Frozen
    \/ \E s \in SurfaceIds, z \in ZOrders, a \in BOOLEAN : RpcSetZOrder(s, z, a) /\ Frozen
    \/ \E l \in LayerIds, v \in BOOLEAN, a \in BOOLEAN : RpcSetLayerVisibility(l, v, a) /\ Frozen
    \/ \E l \in LayerIds, k \in CallOpacities, a \in BOOLEAN :
          RpcSetLayerOpacity(l, k, a) /\ Frozen
    \/ RpcCommit /\ Frozen

SpecCalls == InitCalls /\ [][NextCalls]_vars


\* ---------------------------------------------------------------- C11
\* The mutators whose value is validated.
ValidatedMethods == {"set_position", "set_size", "set_opacity", "set_z_order", "set_layer_opacity"}

\* C11: a mutator request whose value fails validation is answered with
\* error -32602, makes no capability call, and leaves the mirror (and the
\* compositor) as they were.
C11_InvalidValueRefused ==
    [][(rpc'.method \in ValidatedMethods /\ ~Valid(rpc'.method, rpc'.arg))
       => /\ ErrorCode(rpc'.response) = -32602
          /\ rpc'.calls = <<>>
          /\ emitted' = <<>>
          /\ UNCHANGED <<surfaces, layers, focused_surface, hostVars>>]_vars

\* A z-order above the range was refused for the tracked surface 1000.
C11_Witness ==
    /\ rpc.method = "set_z_order"
    /\ rpc.id = 1000
    /\ rpc.id \in DOMAIN surfaces
    /\ rpc.arg = <<MaxZOrder + 1>>
    /\ rpc.response = "invalid_params"


\* ---------------------------------------------------------------- C14
\* The uncommitted set_z_order requests for surface s, oldest first.
RECURSIVE PendingZOrders(_, _)
PendingZOrders(batch, s) ==
    IF batch = <<>> THEN <<>>
    ELSE (IF batch[1][1] = "set_z_order" /\ batch[1][2] = s THEN <<batch[1][3][1]>> ELSE <<>>)
         \o PendingZOrders(Tail(batch), s)

\* C14: set_z_order with a z_order in [0,1000] on a tracked surface stores
\* the z_order in the mirror, and the commit of the change (the request's
\* own auto_commit, or a later commit) emits ZOrderChanged for the surface
\* with the new z_order.
C14_ZOrderMirroredAndNotified ==
    [][/\ (rpc'.method = "set_z_order" /\ rpc'.response = "success")
          => /\ surfaces'[rpc'.id].z_order = rpc'.arg[1]
             /\ rpc'.auto_commit
                => Notification("ZOrderChanged", rpc'.id, surfaces[rpc'.id].z_order, rpc'.arg[1])
                     \in Range(emitted')
       /\ rpc'.method = "commit"
          => \A s \in DOMAIN surfaces \cap DOMAIN h_surfaces :
                PendingZOrders(uncommitted, s) # <<>>
                => \E n \in Range(emitted') :
                      /\ n.type = "ZOrderChanged" /\ n.id = s
                      /\ n.new = PendingZOrders(uncommitted, s)[Len(PendingZOrders(uncommitted, s))]]_vars


\* ---------------------------------------------------------------- C15
SurfaceMethods ==
    {"get_surface", "set_position", "set_size", "set_visibility", "set_opacity",
     "set_orientation", "set_z_order", "set_focus"}

LayerMethods == {"get_layer", "set_layer_visibility", "set_layer_opacity"}

\* C15: a request whose values validate and that names a surface id or a
\* layer id missing from the mirror is answered with error code -32000.
C15_UnknownEntityIsNotFound ==
    [][/\ (/\ rpc'.method \in SurfaceMethods
           /\ Valid(rpc'.method, rpc'.arg)
           /\ rpc'.id \notin DOMAIN surfaces)
          => ErrorCode(rpc'.response) = -32000
       /\ (/\ rpc'.method \in LayerMethods
           /\ Valid(rpc'.method, rpc'.arg)
           /\ rpc'.id \notin DOMAIN layers)
          => ErrorCode(rpc'.response) = -32000]_vars


\* ---------------------------------------------------------------- C17
\* The capability writers of the surface and layer wrappers.
Writers ==
    {"set_position", "set_size", "set_visibility", "set_opacity", "set_orientation",
     "set_z_order", "set_layer_visibility", "set_layer_opacity", "commit_changes"}

\* C17 as stated: every set_orientation request whose orientation parses is
\* rejected with -32603, without a capability writer and without a change
\* of the mirror.
C17_OrientationAlwaysUnsupported ==
    [][(rpc'.method = "set_orientation" /\ Valid("set_orientation", rpc'.arg))
       => /\ ErrorCode(rpc'.response) = -32603
          /\ Range(rpc'.calls) \cap Writers = {}
          /\ UNCHANGED <<surfaces, layers, focused_surface>>]_vars

\* C17: set_orientation with an orientation that parses is rejected with
\* -32603 on a tracked surface and with -32000 on an id the mirror does
\* not hold; it calls no capability writer and leaves the mirror and the
\* compositor unchanged.
C17_OrientationUnsupportedWhenTracked ==
    [][(rpc'.method = "set_orientation" /\ Valid("set_orientation", rpc'.arg))
       => /\ ErrorCode(rpc'.response) = (IF rpc'.id \in DOMAIN surfaces THEN -32603 ELSE -32000)
          /\ Range(rpc'.calls) \cap Writers = {}
          /\ emitted' = <<>>
          /\ UNCHANGED <<surfaces, layers, focused_surface, hostVars>>]_vars

\* Rotate90 was requested for the tracked surface 1000 and refused as unsupported.
C17_Witness ==
    /\ rpc.method = "set_orientation"
    /\ rpc.id = 1000
    /\ rpc.id \in DOMAIN surfaces
    /\ rpc.arg = <<"Rotate90">>
    /\ rpc.response = "internal_error"


\* ---------------------------------------------------------------- C16
\* C16: when the handler is given a line that is no well-formed request,
\* one response (the parse error, -32700) is written to the client that
\* sent it, and the client stays connected.
C16_MalformedIsAnswered ==
    [][(/\ ev_pc = "handling" /\ ev_messages # <<>>
        /\ Head(ev_messages)[2].method \notin Methods
        /\ Head(ev_messages)[1] \in clients
        /\ ev_messages' = Tail(ev_messages))
       => /\ Len(responses'[Head(ev_messages)[1]]) = Len(responses[Head(ev_messages)[1]]) + 1
          /\ Head(ev_messages)[1] \in clients']_vars


\* ------------------------------------------------ shutdown and the threads
\* The compositor shuts down: compositor_destroy_handler calls stop_transport.
StopRequest ==
    /\ stop_pc = "idle"
    /\ stop_pc' = "lock"
    /\ UNCHANGED <<slot_lock, socket_file, running, state_lock, poisoned, ev_pc, ev_messages,
                   ev_disconnected, inbox, closed, req_count, parsed, responses>>

\* stop_transport locks the transport slot for the whole of stop().
StopTransportLock ==
    /\ stop_pc = "lock"
    /\ slot_lock \in {"free", "poisoned"}
    /\ IF slot_lock = "free"
       THEN slot_lock' = "stop" /\ stop_pc' = "signal"
       ELSE stop_pc' = "panicked" /\ UNCHANGED slot_lock
    /\ UNCHANGED <<socket_file, running, state_lock, poisoned, ev_pc, ev_messages, ev_disconnected,
                   inbox, closed, req_count, parsed, responses>>

\* stop(): running is cleared under the TransportState mutex.
StopSignal ==
    /\ stop_pc = "signal" /\ state_lock = "free"
    /\ IF poisoned
       THEN stop_pc' = "panicked" /\ slot_lock' = "poisoned" /\ UNCHANGED running
       ELSE stop_pc' = "join" /\ running' = FALSE /\ UNCHANGED slot_lock
    /\ UNCHANGED <<socket_file, state_lock, poisoned, ev_pc, ev_messages, ev_disconnected,
                   inbox, closed, req_count, parsed, responses>>

\* stop(): join returns when the thread has ended; the join of a thread
\* that panicked is an error, returned before the socket file is removed.
StopJoin ==
    /\ stop_pc = "join" /\ ev_pc \in {"exited", "panicked"}
    /\ IF ev_pc = "exited"
       THEN stop_pc' = "unlink" /\ UNCHANGED slot_lock
       ELSE stop_pc' = "failed" /\ slot_lock' = "free"
    /\ UNCHANGED <<socket_file, running, state_lock, poisoned, ev_pc, ev_messages, ev_disconnected,
                   inbox, closed, req_count, parsed, responses>>

\* stop(): the socket file is removed, and stop_transport returns.
StopUnlink ==
    /\ stop_pc = "unlink"
    /\ socket_file' = FALSE
    /\ stop_pc' = "done"
    /\ slot_lock' = "free"
    /\ UNCHANGED <<running, state_lock, poisoned, ev_pc, ev_messages, ev_disconnected,
                   inbox, closed, req_count, parsed, responses>>

StopThread ==
    /\ StopRequest \/ StopTransportLock \/ StopSignal \/ StopJoin \/ StopUnlink
    /\ UNCHANGED <<subVars, pumpVars, histVars, hostVars, coreVars, wireVars, emitVars>>

\* The delivery thread.
Pump ==
    /\ PumpSnapshot \/ PumpDrain \/ PumpSend
    /\ UNCHANGED <<histVars, hostVars, coreVars, wireVars, emitVars, stop_pc, socket_file, running, state_lock,
                   poisoned, ev_pc, ev_messages, ev_disconnected, inbox, closed, req_count,
                   parsed, responses>>

\* What the clients write in the runs of the whole plugin.
RuntimeMethods == {"subscribe", "garbage"}

InitRuntime ==
    /\ SubInit /\ PumpInit /\ HistInit /\ TransInit /\ WireInit /\ EmitInit /\ SceneInit
    /\ buffer_size = MaxCap

NextRuntime ==
    \/ \E c \in ClientIds, method \in RuntimeMethods : ClientSend(c, method)
    \/ HandleNotification("SurfaceCreated") /\ UNCHANGED <<histVars, transVars, hostVars, coreVars, wireVars, emitVars>>
    \/ LoopCheck
    \/ LoopAccept
    \/ LoopRead
    \/ LoopLock
    \/ LoopHandleMessage
    \/ LoopUnlock
    \/ LoopCleanup
    \/ (PumpSnapshot /\ Pump)
    \/ (PumpDrain /\ Pump)
    \/ (PumpSend /\ Pump)
    \/ (StopRequest /\ StopThread)
    \/ (StopTransportLock /\ StopThread)
    \/ (StopSignal /\ StopThread)
    \/ (StopJoin /\ StopThread)
    \/ (StopUnlink /\ StopThread)

SpecRuntime == InitRuntime /\ [][NextRuntime]_vars

\* The event loop, the delivery thread and the thread of the destroy
\* handler are threads of their own: each runs whenever it is not blocked.
SpecRuntimeFair ==
    /\ SpecRuntime
    /\ WF_vars(EventLoop)
    /\ WF_vars(Pump)
    /\ WF_vars((StopTransportLock \/ StopSignal \/ StopJoin \/ StopUnlink) /\ StopThread)


\* ---------------------------------------------------------------- C18
\* Notification n was evicted from the outbox of c without being handed to
\* the delivery thread.
Dropped(c, n) ==
    /\ n <= seq
    /\ c \in DOMAIN subscriptions
    /\ n \notin Range(subscriptions[c].event_buffer)
    /\ ~(pump_cur = c /\ n \in Range(pump_batch))
    /\ n \notin Range(sent[c])

\* C18: a notification queued for a client that stays connected and
\* subscribed, and that outbox overflow does not drop, is eventually sent
\* to that client by the delivery thread (as long as the plugin is not
\* being shut down).
C18_QueuedIsEventuallySent ==
    \A c \in ClientIds : \A n \in 1..MaxNotifs :
        (/\ stop_pc = "idle"
         /\ c \in clients
         /\ c \in DOMAIN subscriptions
         /\ n \in Range(subscriptions[c].event_buffer))
        ~> (\/ n \in Range(sent[c])
            \/ c \notin clients
            \/ c \notin DOMAIN subscriptions
            \/ Dropped(c, n)
            \/ stop_pc # "idle")

\* ---------------------------------------------------------------- C19
\* C19: once shutdown is requested, the accept/read loop exits, stop
\* returns after joining the thread, and the socket path is unlinked.
C19_ShutdownCompletes ==
    (stop_pc # "idle") ~> (ev_pc = "exited" /\ stop_pc = "done" /\ ~socket_file)

\* ---------------------------------------------------------------- C20
\* C20: once shutdown has been requested (and even when stop has returned),
\* the delivery thread's loop ends.
C20_PumpExitsAfterShutdown ==
    (stop_pc = "done") ~> (pump_pc \in {"exited", "panicked"})


\* ------------------------------------ the host callbacks, call by call
\* surface_created_callback, first call: handle_surface_created(s).
SurfaceCreatedHandled(s) ==
    /\ phase = "running" /\ host_pc = <<>>
    /\ s \notin DOMAIN h_surfaces
    /\ h_surfaces' = [t \in DOMAIN h_surfaces \cup {s} |->
                         IF t = s THEN SeedSurface ELSE h_surfaces[t]]
    /\ surfaces' = [t \in DOMAIN surfaces \cup {s} |->
                       IF t = s THEN ReadSurface(h_surfaces', s, 0) ELSE surfaces[t]]
    /\ emitted' = <<Notification("SurfaceCreated", s, None, None)>>
    /\ host_pc' = <<"surface_created", s>>
    /\ rpc' = NoRpc
    /\ UNCHANGED <<h_layers, h_layer_props, phase, layers, focused_surface, surface_prop_listeners,
                   layer_prop_listeners, listener_contexts, uncommitted>>

\* surface_created_callback, second call: register_surface_property_listener_by_id(s).
SurfaceCreatedRegister ==
    /\ host_pc # <<>> /\ host_pc[1] = "surface_created"
    /\ LET done == RegisterSurfacePropertyListener(surface_prop_listeners, listener_contexts,
                                                   h_surfaces, host_pc[2])
       IN  /\ surface_prop_listeners' = done.map
           /\ listener_contexts' = done.ctx
    /\ host_pc' = <<>>
    /\ emitted' = <<>>
    /\ rpc' = NoRpc
    /\ UNCHANGED <<hostVars, phase, surfaces, layers, focused_surface, layer_prop_listeners,
                   uncommitted>>

\* surface_removed_callback, first call: handle_surface_destroyed(s).
SurfaceRemovedHandled(s) ==
    /\ phase = "running" /\ host_pc = <<>>
    /\ s \in DOMAIN h_surfaces
    /\ h_surfaces' = [t \in DOMAIN h_surfaces \ {s} |-> h_surfaces[t]]
    /\ h_layer_props' = WithoutSurface(h_layer_props, s)
    /\ surfaces' = [t \in DOMAIN surfaces \ {s} |-> surfaces[t]]
    /\ focused_surface' = FocusAfterDestroy(focused_surface, s)
    /\ emitted' = <<Notification("SurfaceDestroyed", s, None, None)>>
                    \o FocusNotifications(focused_surface, focused_surface')
    /\ host_pc' = <<"surface_removed", s>>
    /\ rpc' = NoRpc
    /\ UNCHANGED <<h_layers, phase, layers, surface_prop_listeners, layer_prop_listeners,
                   listener_contexts, uncommitted>>

\* surface_removed_callback, second call: remove_surface_property_listener(s).
SurfaceRemovedRelease ==
    /\ host_pc # <<>> /\ host_pc[1] = "surface_removed"
    /\ LET done == RemoveSurfacePropertyListener(surface_prop_listeners, listener_contexts,
                                                 host_pc[2])
       IN  /\ surface_prop_listeners' = done.map
           /\ listener_contexts' = done.ctx
    /\ host_pc' = <<>>
    /\ emitted' = <<>>
    /\ rpc' = NoRpc
    /\ UNCHANGED <<hostVars, phase, surfaces, layers, focused_surface, layer_prop_listeners,
                   uncommitted>>

\* compositor_destroy_handler once the transport is stopped: the plugin
\* state is dropped.  Drop for EventListeners clears the per-surface
\* listeners and removes the five global ones from the registry; the map of
\* the per-layer listeners is dropped with the EventContext as it is.
CompositorDestroy ==
    /\ phase = "running" /\ host_pc = <<>>
    /\ phase' = "destroyed"
    /\ surface_prop_listeners' = {}
    /\ layer_prop_listeners' = {}
    /\ listener_contexts' =
          Released(listener_contexts,
                   {SurfaceKey(s) : s \in surface_prop_listeners}
                       \cup {GlobalKey(g) : g \in GlobalListeners})
    /\ emitted' = <<>>
    /\ rpc' = NoRpc
    /\ UNCHANGED <<hostVars, surfaces, layers, focused_surface, host_pc, uncommitted>>

\* The compositor's thread is not inside a callback of the plugin.
HostIdle == host_pc = <<>>

NextListeners ==
    \/ PluginInit /\ Frozen
    \/ \E s \in SurfaceIds : SurfaceCreatedHandled(s) /\ Frozen
    \/ SurfaceCreatedRegister /\ Frozen
    \/ \E s \in SurfaceIds : SurfaceRemovedHandled(s) /\ Frozen
    \/ SurfaceRemovedRelease /\ Frozen
    \/ \E s \in SurfaceIds : HostIdle /\ SurfaceConfigured(s) /\ Frozen
    \/ \E l \in LayerIds : HostIdle /\ LayerCreated(l) /\ Frozen
    \/ \E l \in LayerIds : HostIdle /\ LayerRemoved(l) /\ Frozen
    \/ \E s \in SurfaceIds, a \in BOOLEAN : RpcSetFocus(s, a) /\ Frozen
    \/ \E s \in SurfaceIds, v \in BOOLEAN : RpcSetVisibility(s, v, TRUE) /\ Frozen
    \/ RpcCommit /\ Frozen
    \/ CompositorDestroy /\ Frozen

SpecListeners == Init /\ [][NextListeners]_vars

C22_ListenerReleasedBeforeMirror ==
    [][\A s \in SurfaceIds :
          (s \in DOMAIN surfaces /\ s \notin DOMAIN surfaces')
          => (s \notin surface_prop_listeners /\ listener_contexts[SurfaceKey(s)] = 0)]_vars

\* ---------------------------------------------------------------- C23
\* C23: once the compositor's destruction has been processed, the listener
\* registry holds no listener of the plugin: no per-surface, no per-layer
\* and no global one.
C23_RegistryEmptyAfterDestroy ==
    phase = "destroyed" => listener_contexts = NoListeners


\* ------------------------------------------------ the stream, call by call
\* One write to the stream: who wrote, the payload and the bytes.
Wrote(by, data, bytes) == [by |-> by, data |-> data, bytes |-> bytes]

\* The stream is written before the reader is called: a reader sees the
\* bytes it is given and nothing of when they were written.
Writable == Len(wrote) < MaxWrites /\ fr_results = <<>>

\* write_frame(stream, p).
WriteFrameCall(p) ==
    /\ Writable
    /\ Len(p) <= MAX_MESSAGE_SIZE
    /\ wire' = wire \o WriteFrame(p)
    /\ wrote' = Append(wrote, Wrote("write_frame", p, WriteFrame(p)))
    /\ UNCHANGED <<fr_state, fr_buffer, fr_results>>

\* A peer writes, without write_frame, a header that encodes length n.
PeerWriteHeader(n) ==
    /\ Writable
    /\ wire' = wire \o ToBeBytes(n)
    /\ wrote' = Append(wrote, Wrote("peer", <<>>, ToBeBytes(n)))
    /\ UNCHANGED <<fr_state, fr_buffer, fr_results>>

\* transport.send(client, p), for a response or a notification.
TransportSend(p) ==
    /\ Writable
    /\ wire' = wire \o SendBytes(p)
    /\ wrote' = Append(wrote, Wrote("send", p, SendBytes(p)))
    /\ UNCHANGED <<fr_state, fr_buffer, fr_results>>

\* reader.read_frame(&mut cursor), the cursor holding the next n bytes of
\* the stream.
ReadFrameCall(n, end) ==
    /\ Len(fr_results) < MaxReaderCalls
    /\ LET call == ReadFrame(fr_state, fr_buffer, SubSeq(wire, 1, n), end)
       IN  /\ fr_state' = call.state
           /\ fr_buffer' = call.buffer
           /\ fr_results' = Append(fr_results, call.result)
           /\ wire' = SubSeq(wire, call.consumed + 1, Len(wire))
    /\ UNCHANGED wrote

\* reader.reset().
ResetCall ==
    /\ Len(fr_results) < MaxReaderCalls
    /\ fr_state' = DefaultReadState
    /\ fr_buffer' = <<>>
    /\ fr_results' = Append(fr_results, <<"Reset">>)
    /\ UNCHANGED <<wire, wrote>>

WireFrozen == UNCHANGED <<subVars, pumpVars, histVars, transVars, hostVars, coreVars, emitVars>>

InitWire ==
    /\ SubInit /\ PumpInit /\ HistInit /\ TransInit /\ WireInit /\ EmitInit /\ SceneInit
    /\ buffer_size = MaxCap

NextWire ==
    \/ \E p \in Payloads : WriteFrameCall(p) /\ WireFrozen
    \/ \E n \in RawLengths : PeerWriteHeader(n) /\ WireFrozen
    \/ \E p \in Payloads \ {<<>>} : TransportSend(p) /\ WireFrozen
    \/ \E n \in 0..Len(wire), end \in {"Eof", "NeedMore"} : ReadFrameCall(n, end) /\ WireFrozen
    \/ ResetCall /\ WireFrozen

SpecWire == InitWire /\ [][NextWire]_vars


\* The payloads of the Complete results among the reader's results.
RECURSIVE Completes(_)
Completes(results) ==
    IF results = <<>> THEN <<>>
    ELSE IF Head(results)[1] = "Complete"
    THEN <<Head(results)[2]>> \o Completes(Tail(results))
    ELSE Completes(Tail(results))

\* The bytes of the writes ws, in the order written.
RECURSIVE StreamOf(_)
StreamOf(ws) == IF ws = <<>> THEN <<>> ELSE Head(ws).bytes \o StreamOf(Tail(ws))

\* The frames of the payloads ps, one after the other.
RECURSIVE FramesOf(_)
FramesOf(ps) == IF ps = <<>> THEN <<>> ELSE WriteFrame(Head(ps)) \o FramesOf(Tail(ps))

\* The bytes of the message the reader is in the middle of.
InReader(st) ==
    IF st.kind = "WaitingForHeader" THEN SubSeq(st.header_buf, 1, st.bytes_read)
    ELSE ToBeBytes(st.expected_len) \o st.buffer

\* Every write to the stream was a write_frame of a non-empty payload.
Framed == \A i \in 1..Len(wrote) : wrote[i].by = "write_frame" /\ Len(wrote[i].data) >= 1

WasReset == \E i \in 1..Len(fr_results) : fr_results[i] = <<"Reset">>

\* The reader holds a complete header that it refused.
Refusing == fr_state.kind = "WaitingForHeader" /\ fr_state.bytes_read = 4

\* ---------------------------------------------------------------- C24
\* C24: every message the transport sends, a response or a notification,
\* is on the stream as one frame: the 4-byte big-endian length of the
\* payload, then the payload's bytes and nothing else.
C24_SentAsOneFrame ==
    \A i \in 1..Len(wrote) :
        wrote[i].by = "send" => wrote[i].bytes = WriteFrame(wrote[i].data)

\* ---------------------------------------------------------------- C25
\* Lengths around the byte boundaries of the header, up to the limit.
HeaderLengths == {1, 255, 256, 65535, 65536, 16777215, 16777216, MAX_MESSAGE_SIZE}

\* C25: a fresh reader that is given the bytes write_frame wrote for a
\* payload of at least one byte returns Complete with that payload; the
\* header carries every length up to the limit unchanged.
C25_WriteThenReadIsComplete ==
    /\ (/\ Len(wrote) = 1 /\ wrote[1].by = "write_frame" /\ Len(wrote[1].data) >= 1
        /\ Len(fr_results) = 1 /\ wire = <<>>)
       => fr_results[1] = <<"Complete", wrote[1].data>>
    /\ \A n \in HeaderLengths : FromBeBytes(ToBeBytes(n)) = n

\* A two-byte payload was written as a frame and one read_frame on all of
\* its bytes returned it.
C25_Witness ==
    /\ Len(wrote) = 1 /\ wrote[1].by = "write_frame" /\ wrote[1].data = <<0, 1>>
    /\ fr_results = <<<<"Complete", <<0, 1>>>>>>

\* ---------------------------------------------------------------- C26
\* C26: however a stream of frames is cut into the parts that the reader's
\* calls receive, the payloads it returns are the payloads written, in
\* order: the bytes written are the frames returned, then the bytes the
\* reader holds, then the bytes not yet read; and when the reader has seen
\* the whole stream and asks for more, every payload has been returned.
C26_SplitAnywhereSamePayloads ==
    (Framed /\ ~WasReset)
    => /\ FramesOf(Completes(fr_results)) \o InReader(fr_state) \o fr_buffer \o wire
              = StreamOf(wrote)
       /\ \A i \in 1..Len(fr_results) : fr_results[i] # <<"Err">>
       /\ (/\ wire = <<>> /\ fr_results # <<>>
           /\ fr_results[Len(fr_results)] \in {<<"Eof">>, <<"NeedMore">>})
          => Completes(fr_results) = [i \in 1..Len(wrote) |-> wrote[i].data]

\* Two frames were written; the first call got a part that ends inside the
\* first frame, and the next two calls returned the two payloads.
C26_Witness ==
    /\ Framed /\ Len(wrote) = 2 /\ wrote[1].data # wrote[2].data
    /\ Len(fr_results) = 3
    /\ fr_results[1] \in {<<"Eof">>, <<"NeedMore">>}
    /\ fr_results[2] = <<"Complete", wrote[1].data>>
    /\ fr_results[3] = <<"Complete", wrote[2].data>>

\* ---------------------------------------------------------------- C27
\* C27: a reader that has read a header encoding length 0 or more than
\* MAX_MESSAGE_SIZE has returned an error, a reader waits for a payload
\* only of an accepted length, and after an error no call returns Complete
\* before reset() is called.
C27_RefusedHeaderUntilReset ==
    /\ Refusing
       => /\ FromBeBytes(fr_state.header_buf) \notin 1..MAX_MESSAGE_SIZE
          /\ \E i \in 1..Len(fr_results) :
                /\ fr_results[i] = <<"Err">>
                /\ \A k \in i..Len(fr_results) : fr_results[k] # <<"Reset">>
    /\ fr_state.kind = "WaitingForPayload" => fr_state.expected_len \in 1..MAX_MESSAGE_SIZE
    /\ \A i, j \in 1..Len(fr_results) :
          (i < j /\ fr_results[i] = <<"Err">> /\ fr_results[j][1] = "Complete")
          => \E k \in i..j : fr_results[k] = <<"Reset">>

\* A header one above the limit was refused, the reader was reset, and the
\* frame behind the header was then returned.
C27_Witness ==
    /\ Len(wrote) = 2 /\ wrote[1].bytes = ToBeBytes(MAX_MESSAGE_SIZE + 1)
    /\ wrote[2].by = "write_frame"
    /\ fr_results = <<<<"Err">>, <<"Reset">>, <<"Complete", wrote[2].data>>>>


\* ---------------------------------------------------------------- C28
\* The notification_type a notification is delivered under: both rectangle
\* changes are of type GeometryChanged.
NotificationType(n) ==
    IF n.type \in {"SourceGeometryChanged", "DestinationGeometryChanged"}
    THEN "GeometryChanged" ELSE n.type

AllDiffer(old, new) ==
    /\ old.src # new.src
    /\ old.dest # new.dest
    /\ old.visibility # new.visibility
    /\ old.opacity # new.opacity
    /\ old.orientation # new.orientation

\* C28: when the unfiltered diff finds source rectangle, destination
\* rectangle, visibility, opacity and orientation all changed, it delivers
\* four notifications, one of each of the types GeometryChanged,
\* VisibilityChanged, OpacityChanged and OrientationChanged.
C28_FourNotificationsWhenAllDiffer ==
    [][\A s \in DOMAIN surfaces \cap DOMAIN h_surfaces :
          (/\ SurfaceConfigured(s)
           /\ h_surfaces[s].prop.mask = {}
           /\ AllDiffer(surfaces[s], surfaces'[s]))
          => /\ Len(emitted') = 4
             /\ \A t \in {"GeometryChanged", "VisibilityChanged", "OpacityChanged",
                          "OrientationChanged"} :
                   Cardinality({i \in 1..Len(emitted') : NotificationType(emitted'[i]) = t}) = 1]_vars


\* ---------------------------------------------------------------- C29
\* C29: no thread of the plugin waits for a mutex that is never released:
\* the event loop never waits for the client table's mutex while holding
\* it, and never waits for the transport slot while the thread that holds
\* the slot waits for the event loop to end.
C29_NoThreadWaitsForever ==
    /\ ev_pc # "deadlocked"
    /\ ~(ev_pc = "slot_wait" /\ slot_lock = "stop" /\ stop_pc = "join")


\* ------------------------------------------------------ emit, step by step
\* register_callback(t, callback), called outside an emission.
RegisterCallback(t, kind) ==
    /\ emit_pc = EmitIdle
    /\ registry_lock = "free"
    /\ Len(callbacks[t]) < MaxCallbacks
    /\ callbacks' = [callbacks EXCEPT ![t] = Append(@, kind)]
    /\ UNCHANGED <<registry_lock, emit_pc, delivered>>

\* emit(notification of type t): let callbacks = self.callbacks.lock().unwrap().
EmitLock(t) ==
    /\ emit_pc = EmitIdle
    /\ \E outcome \in LockOutcomes(registry_lock, "emit") :
          IF outcome = "ok"
          THEN /\ registry_lock' = "emit"
               /\ emit_pc' = EmitAt("iterating", t, 1)
          ELSE /\ emit_pc' = EmitAt("panicked", t, 0)
               /\ UNCHANGED registry_lock
    /\ delivered' = <<>>
    /\ UNCHANGED callbacks

\* emit: callback(&notification) for the next callback of the list; the
\* guard taken by EmitLock is alive.
EmitInvoke ==
    /\ emit_pc.at = "iterating"
    /\ emit_pc.index <= Len(callbacks[emit_pc.type])
    /\ emit_pc' = [emit_pc EXCEPT !.at = "in_callback"]
    /\ UNCHANGED <<callbacks, registry_lock, delivered>>

\* The callback runs on the emitting thread. A forwarding callback returns;
\* a registering callback calls register_callback, which locks the registry;
\* a panic unwinds through emit, whose guard is dropped while panicking.
CallbackRuns ==
    /\ emit_pc.at = "in_callback"
    /\ LET kind == callbacks[emit_pc.type][emit_pc.index]
       IN  IF kind = "forward"
           THEN /\ emit_pc' = [emit_pc EXCEPT !.at = "iterating", !.index = @ + 1]
                /\ delivered' = Append(delivered, emit_pc.index)
                /\ UNCHANGED <<callbacks, registry_lock>>
           ELSE IF kind = "panic"
           THEN /\ emit_pc' = [emit_pc EXCEPT !.at = "panicked"]
                /\ registry_lock' = "poisoned"
                /\ UNCHANGED <<callbacks, delivered>>
           ELSE \E outcome \in LockOutcomes(registry_lock, "emit") :
                   /\ IF outcome = "ok"
                      THEN /\ callbacks' = [callbacks EXCEPT ![emit_pc.type] = Append(@, "forward")]
                           /\ emit_pc' = [emit_pc EXCEPT !.at = "iterating", !.index = @ + 1]
                           /\ delivered' = Append(delivered, emit_pc.index)
                           /\ UNCHANGED registry_lock
                      ELSE /\ emit_pc' = [emit_pc EXCEPT !.at =
                                             IF outcome = "deadlock" THEN "deadlocked" ELSE "panicked"]
                           /\ registry_lock' = (IF outcome = "panic" /\ registry_lock = "emit"
                                                THEN "poisoned" ELSE registry_lock)
                           /\ UNCHANGED <<callbacks, delivered>>

\* emit returns after the last callback: the guard is dropped.
EmitReturn ==
    /\ emit_pc.at = "iterating"
    /\ emit_pc.index > Len(callbacks[emit_pc.type])
    /\ emit_pc' = EmitIdle
    /\ registry_lock' = "free"
    /\ UNCHANGED <<callbacks, delivered>>

\* The panic has left emit; the manager is used again.
EmitUnwound ==
    /\ emit_pc.at = "panicked"
    /\ emit_pc' = EmitIdle
    /\ UNCHANGED <<callbacks, registry_lock, delivered>>

EmitFrozen == UNCHANGED <<subVars, pumpVars, histVars, transVars, hostVars, coreVars, wireVars>>

InitEmit ==
    /\ SubInit /\ PumpInit /\ HistInit /\ TransInit /\ WireInit /\ EmitInit /\ SceneInit
    /\ buffer_size = MaxCap

NextEmit ==
    \/ \E t \in CallbackTypes, kind \in CallbackKinds : RegisterCallback(t, kind) /\ EmitFrozen
    \/ \E t \in CallbackTypes : EmitLock(t) /\ EmitFrozen
    \/ EmitInvoke /\ EmitFrozen
    \/ CallbackRuns /\ EmitFrozen
    \/ EmitReturn /\ EmitFrozen
    \/ EmitUnwound /\ EmitFrozen

SpecEmit == InitEmit /\ [][NextEmit]_vars

\* ---------------------------------------------------------------- C30
\* C30: a callback that registers another callback is invoked with the
\* registry's mutex released, and it returns to the emission: the emitting
\* thread neither deadlocks nor panics in it.
C30_RegisteringCallbackCompletes ==
    [][(/\ emit_pc.at = "in_callback"
        /\ callbacks[emit_pc.type][emit_pc.index] = "register")
       => (registry_lock = "free" /\ emit_pc'.at = "iterating")]_vars


\* ---------------------------------------------------------------- C31
\* C31: a callback that panics during an emission leaves the registry's
\* mutex unpoisoned and the emission goes on, and an emit on a manager one
\* of whose callbacks has panicked before still gets at the callbacks.
C31_PanicIsCaught ==
    [][/\ (/\ emit_pc.at = "in_callback"
           /\ callbacks[emit_pc.type][emit_pc.index] = "panic")
          => (registry_lock' # "poisoned" /\ emit_pc'.at = "iterating")
       /\ (emit_pc = EmitIdle /\ emit_pc' # EmitIdle) => emit_pc'.at = "iterating"]_vars


\* --------------------------- handle_layer_configured on a prior snapshot
\* layer_property_changed_callback: handle_layer_configured(l).
LayerConfigured(l) ==
    /\ phase = "running"
    /\ l \in h_layers
    /\ layers' = HandleLayerConfigured(layers, h_layer_props, l)
    /\ emitted' = LayerConfiguredNotifications(layers, h_layer_props, l)
    /\ rpc' = NoRpc
    /\ UNCHANGED <<hostVars, phase, surfaces, focused_surface, surface_prop_listeners,
                   layer_prop_listeners, listener_contexts, host_pc, uncommitted>>

\* The properties the compositor may hold for a layer.
LayerHostProps ==
    [visibility : BOOLEAN, opacity : FixedOpacities, order : {<<>>}, mask : Masks]

\* The snapshots the mirror may hold for it.
LayerSnapshots == [visibility : BOOLEAN, opacity : {FixedToF32(o) : o \in FixedOpacities}]

\* Layer 2000 is mirrored with any snapshot while the compositor holds any
\* properties and event mask for it.
InitLayerDiff ==
    /\ SubInit /\ PumpInit /\ HistInit /\ TransInit /\ WireInit /\ EmitInit
    /\ buffer_size = MaxCap
    /\ h_surfaces = <<>>
    /\ h_layers = {2000}
    /\ h_layer_props \in {[l \in {2000} |-> [prop |-> p, pending |-> [p EXCEPT !.mask = {}]]] :
                             p \in LayerHostProps}
    /\ phase = "running"
    /\ surfaces = <<>>
    /\ layers \in {[l \in {2000} |-> snap] : snap \in LayerSnapshots}
    /\ focused_surface = None
    /\ surface_prop_listeners = {}
    /\ layer_prop_listeners = {2000}
    /\ listener_contexts = InitialListeners({}, {2000})
    /\ host_pc = <<>>
    /\ emitted = <<>>
    /\ rpc = NoRpc
    /\ uncommitted = <<>>

NextLayerDiff == \E l \in LayerIds : LayerConfigured(l) /\ Frozen

SpecLayerDiff == InitLayerDiff /\ [][NextLayerDiff]_vars

\* ---------------------------------------------------------------- C32
\* C32: when handle_layer_configured finds a prior snapshot and the event
\* mask is 0, it emits LayerVisibilityChanged exactly if the visibility
\* differs and LayerOpacityChanged exactly if the opacity differs.
C32_LayerMaskZeroDiffsAll ==
    [][\A l \in DOMAIN layers \cap h_layers :
          (LayerConfigured(l) /\ h_layer_props[l].prop.mask = {})
          => /\ Len(Queued("LayerVisibilityChanged", l, emitted'))
                   = (IF layers[l].visibility # layers'[l].visibility THEN 1 ELSE 0)
             /\ Len(Queued("LayerOpacityChanged", l, emitted'))
                   = (IF layers[l].opacity # layers'[l].opacity THEN 1 ELSE 0)]_vars


\* ---------------------------------------------------------------- C33
\* C33: handle_surface_configured for a surface the compositor has and the
\* mirror has not puts the surface into the mirror and emits one
\* SurfaceCreated for it.
C33_FirstConfigureIsCreation ==
    [][\A s \in DOMAIN h_surfaces \ DOMAIN surfaces :
          SurfaceConfigured(s)
          => /\ s \in DOMAIN surfaces'
             /\ Len(Queued("SurfaceCreated", s, emitted')) = 1]_vars


\* ------------------------------------------- calls answered with an error
\* The answers that are JSON-RPC errors.
ErrorResponses == {"invalid_params", "surface_not_found", "layer_not_found", "internal_error"}

\* C34: a call answered with an error leaves the surface mirror, the layer
\* mirror and the focus exactly as they were, and emits no notification.
C34_ErrorLeavesStateUntouched ==
    [][(rpc' # rpc /\ rpc'.response \in ErrorResponses)
          => /\ surfaces' = surfaces
             /\ layers' = layers
             /\ focused_surface' = focused_surface
             /\ emitted' = <<>>]_vars


\* handle_set_focus with the compositor's answer to commit_changes as an
\* input: the focus is set and its change emitted while the lock is held,
\* then the surface is activated twice and, with auto_commit, committed; a
\* commit the compositor refuses turns the answer into internal_error.
HandleSetFocus(s, auto_commit, committed) ==
    IF committed \/ ~auto_commit \/ s \notin DOMAIN surfaces \/ s \notin DOMAIN h_surfaces
    THEN RpcSetFocus(s, auto_commit)
    ELSE /\ phase = "running"
         /\ focused_surface' = Some(s)
         /\ emitted' = FocusNotifications(focused_surface, Some(s))
         /\ rpc' = [NoRpc EXCEPT !.method = "set_focus", !.id = s,
                                 !.auto_commit = auto_commit, !.response = "internal_error",
                                 !.calls = <<"get_surface_from_id", "set_keyboard_focus",
                                             "set_pointer_focus", "commit_changes">>]
         /\ UNCHANGED <<hostVars, surfaces, layers, uncommitted, surface_prop_listeners,
                        layer_prop_listeners, listener_contexts, host_pc, phase>>

NextFocus ==
    \/ PluginInit /\ Frozen
    \/ \E s \in SurfaceIds : SurfaceCreated(s) /\ Frozen
    \/ \E s \in SurfaceIds : SurfaceRemoved(s) /\ Frozen
    \/ \E s \in SurfaceIds, a \in BOOLEAN, c \in BOOLEAN : HandleSetFocus(s, a, c) /\ Frozen

SpecFocus == Init /\ [][NextFocus]_vars


\* ------------------------------------------------- both pending writes
\* C35: the commit that follows set_position then set_size on one surface,
\* both without auto_commit, leaves the surface's destination rectangle at
\* the requested origin with the requested size.
C35_BothPendingWritesApplied ==
    [][(rpc'.method = "commit" /\ PositionThenSize)
          => h_surfaces'[uncommitted[1][2]].prop.dest = RequestedRect]_vars


\* --------------------------------------- one notification per attribute
\* The mirror's field behind each property-change notification type.
AttributeOf(type) ==
    CASE type = "SourceGeometryChanged" -> "src"
      [] type = "DestinationGeometryChanged" -> "dest"
      [] type = "VisibilityChanged" -> "visibility"
      [] type = "OpacityChanged" -> "opacity"
      [] type = "OrientationChanged" -> "orientation"

PropertyChangeTypes ==
    {"SourceGeometryChanged", "DestinationGeometryChanged", "VisibilityChanged",
     "OpacityChanged", "OrientationChanged"}

\* out holds one notification of the type for s when the attribute differs
\* between the snapshots, and none when it does not.
OncePerChange(s, old, new, out) ==
    \A type \in PropertyChangeTypes :
        Len(Queued(type, s, out)) = IF old[AttributeOf(type)] # new[AttributeOf(type)] THEN 1 ELSE 0

\* The handler's re-read of s running before the listeners of the commit.
RereadThenListeners(mir, hs, s) ==
    ConfiguredNotifications(mir, hs, s)
      \o ConfigureAll(HandleSurfaceConfigured(mir, hs, s), hs,
                      Ascending(Notified(hs, surface_prop_listeners))).out

\* C36: a successful auto_commit mutator queues, for the surface it wrote,
\* exactly one notification per attribute the commit changed and none for
\* the others, whether the listener or the handler's re-read runs first.
C36_OneNotificationPerChange ==
    [][(/\ rpc'.method \in {"set_position", "set_size", "set_opacity", "set_visibility"}
        /\ rpc'.auto_commit
        /\ rpc'.response = "success")
          => /\ OncePerChange(rpc'.id, surfaces[rpc'.id], surfaces'[rpc'.id], emitted')
             /\ OncePerChange(rpc'.id, surfaces[rpc'.id], surfaces'[rpc'.id],
                              RereadThenListeners(surfaces, h_surfaces', rpc'.id))]_vars

C36_Witness ==
    /\ rpc.method = "set_opacity" /\ rpc.auto_commit /\ rpc.response = "success"
    /\ Len(Queued("OpacityChanged", rpc.id, emitted)) = 1


\* ------------------------------------------ unsubscribing and the outbox
\* handle_notification with the notification's event type kept beside its
\* sequence number, as RpcNotification carries it.
HandleTypedNotification(t) ==
    /\ seq < MaxNotifs
    /\ subscriptions' = QueueNotification(subscriptions, t, [seq |-> seq + 1, event_type |-> t])
    /\ seq' = seq + 1
    /\ UNCHANGED <<buffer_size, clients, next_client_id, pumpVars>>

PumpFrozen == UNCHANGED <<histVars, transVars, hostVars, coreVars, wireVars, emitVars>>

NextUnsubscribe ==
    \/ Accept /\ PumpFrozen
    \/ \E c \in ClientIds, ets \in SUBSET EventTypes : HandleSubscribe(c, ets) /\ PumpFrozen
    \/ \E c \in ClientIds, ets \in SUBSET EventTypes : HandleUnsubscribe(c, ets) /\ PumpFrozen
    \/ \E t \in EventTypes : HandleTypedNotification(t) /\ PumpFrozen
    \/ \E c \in ClientIds : HandleDisconnect(c) /\ PumpFrozen
    \/ PumpSnapshot /\ PumpFrozen
    \/ PumpDrain /\ PumpFrozen
    \/ PumpSend /\ PumpFrozen

SpecUnsubscribe == InitPump /\ [][NextUnsubscribe]_vars

\* C37: a notification is sent to a client only while the client is
\* subscribed to the notification's topic: once unsubscribe(T) has been
\* answered nothing of topic T reaches the client before it subscribes to T
\* again, the notifications of T queued before the unsubscribe included.
C37_NothingSentAfterUnsubscribe ==
    [][\A c \in ClientIds :
          sent'[c] # sent[c]
          => /\ c \in DOMAIN subscriptions
             /\ IsSubscribed(subscriptions[c], Head(pump_batch).event_type)]_vars


\* ------------------------------------------- integer request parameters
\* A JSON integer is kept as serde_json keeps it: PosInt (a u64) or NegInt
\* (an i64 below zero), here as the four 16-bit limbs of its 64-bit pattern,
\* most significant first; Float stands for every number that is no integer.
Limb == 65536

HalfLimb == 32768

PosInt(d3, d2, d1, d0) == [kind |-> "PosInt", limbs |-> <<d3, d2, d1, d0>>]

NegInt(d3, d2, d1, d0) == [kind |-> "NegInt", limbs |-> <<d3, d2, d1, d0>>]

JsonFloat == [kind |-> "Float", limbs |-> <<0, 0, 0, 0>>]

\* Value::as_u64 and Value::as_i64: the 64-bit pattern, or None.
AsU64(v) == IF v.kind = "PosInt" THEN Some(v.limbs) ELSE None

AsI64(v) ==
    IF v.kind = "NegInt" \/ (v.kind = "PosInt" /\ v.limbs[1] < HalfLimb)
    THEN Some(v.limbs)
    ELSE None

\* 'as u32' keeps the low 32 bits; the ids offered have bit 31 clear.
AsU32(l) == l[3] * Limb + l[4]

\* 'as i32' keeps the low 32 bits and reads them in two's complement.
AsI32(l) == (IF l[3] >= HalfLimb THEN l[3] - Limb ELSE l[3]) * Limb + l[4]

\* The JSON integer is a value of u32, of i32.
FitsU32(v) == v.kind = "PosInt" /\ v.limbs[1] = 0 /\ v.limbs[2] = 0

FitsI32(v) ==
    \/ v.kind = "PosInt" /\ v.limbs[1] = 0 /\ v.limbs[2] = 0 /\ v.limbs[3] < HalfLimb
    \/ v.kind = "NegInt" /\ v.limbs[1] = Limb - 1 /\ v.limbs[2] = Limb - 1
                         /\ v.limbs[3] >= HalfLimb

\* The ids 1000 and 1002, and 2^32 + 1000.
RawIds == {PosInt(0, 0, 0, 1000), PosInt(0, 0, 0, 1002), PosInt(0, 1, 0, 1000), JsonFloat}

\* 50, -60, 2^30 (one above MAX_COORD), 2^31, 2^32 + 50 and -2^32 - 60.
RawXs ==
    {PosInt(0, 0, 0, 50), NegInt(Limb - 1, Limb - 1, Limb - 1, Limb - 60),
     PosInt(0, 0, 16384, 0), PosInt(0, 0, HalfLimb, 0), PosInt(0, 1, 0, 50),
     NegInt(Limb - 1, Limb - 2, Limb - 1, Limb - 60), JsonFloat}

\* 60 and 2^63.
RawYs == {PosInt(0, 0, 0, 60), PosInt(HalfLimb, 0, 0, 0)}

RawPositions == [id : RawIds, x : RawXs, y : RawYs]

\* RpcMethod::from_request for "set_position".
FromRequest(params) ==
    IF AsU64(params.id) = None \/ AsI64(params.x) = None \/ AsI64(params.y) = None
    THEN [ok |-> FALSE, id |-> 0, x |-> 0, y |-> 0]
    ELSE [ok |-> TRUE, id |-> AsU32(AsU64(params.id)[1]),
          x |-> AsI32(AsI64(params.x)[1]), y |-> AsI32(AsI64(params.y)[1])]

\* handle_request for a set_position request as it comes off the wire.
RequestSetPosition(params, auto_commit) ==
    IF FromRequest(params).ok
    THEN RpcSetPosition(FromRequest(params).id,
                        <<FromRequest(params).x, FromRequest(params).y>>, auto_commit)
    ELSE /\ phase = "running"
         /\ rpc' = [NoRpc EXCEPT !.method = "set_position", !.auto_commit = auto_commit,
                                 !.response = "invalid_params"]
         /\ emitted' = <<>>
         /\ UNCHANGED <<hostVars, phase, surfaces, layers, focused_surface, uncommitted,
                        surface_prop_listeners, layer_prop_listeners, listener_contexts,
                        host_pc>>

NextParse ==
    \/ PluginInit /\ Frozen
    \/ \E p \in RawPositions, a \in BOOLEAN : RequestSetPosition(p, a) /\ Frozen
    \/ RpcCommit /\ Frozen

SpecParse == InitBatch /\ [][NextParse]_vars

\* C38: a set_position request with an id, x or y that is no value of its
\* 32-bit type is answered invalid_params (-32602); none is wrapped into a
\* value that addresses a surface or passes validation.
C38_OutOfRangeIntegerRejected ==
    [][\A p \in RawPositions, a \in BOOLEAN :
          (RequestSetPosition(p, a) /\ ~(FitsU32(p.id) /\ FitsI32(p.x) /\ FitsI32(p.y)))
          => rpc'.response = "invalid_params"]_vars


\* ------------------------------------------- the render order of a layer
\* Three surfaces, so that two others stand beside the one that is moved.
RenderedIds == {1000, 1001, 1002}

\* The render orders a layer can have over these surfaces.
RenderOrders ==
    {o \in UNION {[1..n -> RenderedIds] : n \in 0..Cardinality(RenderedIds)} :
        \A i, j \in DOMAIN o : i # j => o[i] # o[j]}

\* The positions set_z_order is asked for.
RenderPositions == 0..2

\* Layer 2000 renders some of the three surfaces in some order.
InitRenderOrder ==
    /\ SubInit /\ PumpInit /\ HistInit /\ TransInit /\ WireInit /\ EmitInit /\ CoreInit
    /\ buffer_size = MaxCap
    /\ h_surfaces = [s \in RenderedIds |-> SeedSurface]
    /\ h_layers = {2000}
    /\ \E o \in RenderOrders :
          h_layer_props = [l \in {2000} |->
                              [prop |-> [SeedLayerProps EXCEPT !.order = o],
                               pending |-> [SeedLayerProps EXCEPT !.order = o]]]

\* IviSurface::set_z_order on the compositor's surface s.
SurfaceSetZOrder(s, z) ==
    /\ s \in DOMAIN h_surfaces
    /\ Valid("set_z_order", <<z>>)
    /\ h_layer_props' = SetZOrder(h_layer_props, s, z)
    /\ rpc' = [NoRpc EXCEPT !.method = "set_z_order", !.id = s, !.arg = <<z>>,
                            !.response = "success",
                            !.calls = <<"get_layers_under_surface">>
                                        \o [i \in 1..Cardinality(GetLayersUnderSurface(h_layer_props, s))
                                              |-> "set_render_order"]]
    /\ UNCHANGED <<h_surfaces, h_layers, phase, surfaces, layers, focused_surface,
                   surface_prop_listeners, layer_prop_listeners, listener_contexts, host_pc,
                   emitted, uncommitted>>

\* commit_changes of the compositor.
HostCommitChanges ==
    /\ h_surfaces' = HostCommit(h_surfaces)
    /\ h_layer_props' = LayerHostCommit(h_layer_props)
    /\ rpc' = [NoRpc EXCEPT !.method = "commit", !.response = "success",
                            !.calls = <<"commit_changes">>]
    /\ UNCHANGED <<h_layers, phase, surfaces, layers, focused_surface,
                   surface_prop_listeners, layer_prop_listeners, listener_contexts, host_pc,
                   emitted, uncommitted>>

NextRenderOrder ==
    \/ \E s \in RenderedIds, z \in RenderPositions : SurfaceSetZOrder(s, z) /\ Frozen
    \/ HostCommitChanges /\ Frozen

SpecRenderOrder == InitRenderOrder /\ [][NextRenderOrder]_vars

\* C39: set_z_order on surface s leaves, in every layer that contains s,
\* the other surfaces in the relative order they had before the call.
C39_OthersKeepRelativeOrder ==
    [][\A l \in DOMAIN h_layer_props :
          (/\ rpc'.method = "set_z_order"
           /\ h_layer_props[l].pending.order = h_layer_props[l].prop.order
           /\ l \in GetLayersUnderSurface(h_layer_props, rpc'.id))
          => Without(h_layer_props'[l].pending.order, rpc'.id)
               = Without(h_layer_props[l].prop.order, rpc'.id)]_vars


\* ---------------------------------------------------------------- C40
\* C40: whatever write_frame accepted and wrote, the empty payload
\* included, a fresh reader that is given all of its bytes returns as
\* Complete with that payload; no header write_frame wrote is rejected.
C40_EveryWrittenFrameIsAccepted ==
    (/\ Len(wrote) = 1 /\ wrote[1].by = "write_frame"
     /\ Len(fr_results) = 1 /\ wire = <<>>)
    => fr_results[1] = <<"Complete", wrote[1].data>>

====
